------------------------------ MODULE Spec2Model ------------------------------
(***************************************************************************)
(* The particle-mesh coupling protocol of example/particles/particles2.c   *)
(* (2-D build, P4_TO_P8 undefined): per Runge-Kutta stage every process    *)
(* integrates its particles, locates them in the forest, packs and sends   *)
(* the positions of those that left for another process, receives the      *)
(* positions sent to it, adapts its part of the mesh and waits for its     *)
(* sends.                                                                  *)
(*                                                                         *)
(* Lengths are integers: the unit square has side RootLen.  P4EST_ASSERT   *)
(* is compiled out unless P4EST_ENABLE_DEBUG is set; the model is the      *)
(* default build, in which a failed assertion does not stop the run.       *)
(***************************************************************************)
EXTENDS Integers, Sequences, FiniteSets, TLC

(***************************************************************************)
(* Configuration (main, lines 1449-1473) and model bounds                  *)
(***************************************************************************)
mpisize == 3
minlevel == 2
maxlevel == 3
order == 2
elem_particles == 3
deltat == 12
finaltime == 12
P4EST_CHILDREN == 4
RootLen == 96
\* the number of right-hand-side evaluations of a run that are not zero
MaxMoves == 2
\* the same, for the runs that are checked for progress
LiveMoves == 1
\* the same, for the runs with the second set of particles
SplitMoves == 1

\* the same, for the runs with the third set of particles
PackMoves == 3
\* the same, for the runs in which MPI calls return errors
FailMoves == 1
\* the largest number of time steps of the runs of the time loop alone
TimeMaxSteps == 4010
\* the largest bcount that a failed sc_MPI_Get_count leaves, in particles
MaxZcount == 2
\* the largest num_particles of the runs of the bootstrap
MaxParticles == 16

Ranks == 0 .. mpisize - 1

RECURSIVE Pow2(_)
Pow2(n) == IF n = 0 THEN 1 ELSE 2 * Pow2(n - 1)

RECURSIVE Pow4(_)
Pow4(n) == IF n = 0 THEN 1 ELSE 4 * Pow4(n - 1)

RECURSIVE SumSeq(_)
SumSeq(s) == IF s = <<>> THEN 0 ELSE Head(s) + SumSeq(Tail(s))

RECURSIVE Flatten(_)
Flatten(ss) == IF ss = <<>> THEN <<>> ELSE Head(ss) \o Flatten(Tail(ss))

Range(s) == {s[i] : i \in 1 .. Len(s)}

(***************************************************************************)
(* Quadrants.  A quadrant is its lower corner and its level; the children  *)
(* come in Morton order (x varies fastest).                                *)
(***************************************************************************)
Quad(x, y, l) == [x |-> x, y |-> y, level |-> l]

P4EST_QUADRANT_LEN(l) == RootLen \div Pow2(l)

RootQuad == Quad(0, 0, 0)

Children(q) ==
  LET h == P4EST_QUADRANT_LEN(q.level + 1)
  IN  << Quad(q.x, q.y, q.level + 1), Quad(q.x + h, q.y, q.level + 1),
         Quad(q.x, q.y + h, q.level + 1), Quad(q.x + h, q.y + h, q.level + 1) >>

Parent(q) ==
  LET h == P4EST_QUADRANT_LEN(q.level - 1)
  IN  Quad((q.x \div h) * h, (q.y \div h) * h, q.level - 1)

ChildId(q) ==
  LET h == P4EST_QUADRANT_LEN(q.level)
  IN  ((q.x \div h) % 2) + 2 * ((q.y \div h) % 2)

\* position of the first and last descendant of q at maxlevel, in Morton order
RECURSIVE FirstPos(_)
FirstPos(q) ==
  IF q.level = 0 THEN 0
  ELSE FirstPos(Parent(q)) + ChildId(q) * Pow4(maxlevel - q.level)

LastPos(q) == FirstPos(q) + Pow4(maxlevel - q.level) - 1

QuadOf(leaf) == Quad(leaf.x, leaf.y, leaf.level)

\* loopquad: the closed physical box of a quadrant
loopquad(q) ==
  [lxyz |-> <<q.x, q.y>>,
   hxyz |-> <<q.x + P4EST_QUADRANT_LEN(q.level), q.y + P4EST_QUADRANT_LEN(q.level)>>,
   dxyz |-> <<P4EST_QUADRANT_LEN(q.level), P4EST_QUADRANT_LEN(q.level)>>]

\* the test of psearch_point and slocal_point: x inside the closed box of q
InBox(q, x) ==
  LET b == loopquad(q)
  IN  \A i \in 1 .. 2 : b.lxyz[i] <= x[i] /\ x[i] <= b.hxyz[i]

(***************************************************************************)
(* The forest after p4est_new_ext and initrp: a uniform mesh at minlevel,  *)
(* cut into mpisize pieces of equal quadrant count.                        *)
(***************************************************************************)
RECURSIVE UniformQuads(_, _)
UniformQuads(q, l) ==
  IF q.level = l THEN <<q>>
  ELSE Flatten([i \in 1 .. P4EST_CHILDREN |-> UniformQuads(Children(q)[i], l)])

InitQuads == UniformQuads(RootQuad, minlevel)

p4est_partition_cut(p) == (Len(InitQuads) * p) \div mpisize

\* global_first_position: the first Morton position each process owns
global_first_position ==
  [p \in 0 .. mpisize |->
     IF p = mpisize THEN Pow4(maxlevel)
     ELSE FirstPos(InitQuads[p4est_partition_cut(p) + 1])]

OwnerOf(pos) ==
  CHOOSE p \in Ranks :
    global_first_position[p] <= pos /\ pos < global_first_position[p + 1]

pfirstOf(q) == OwnerOf(FirstPos(q))
plastOf(q) == OwnerOf(LastPos(q))

(***************************************************************************)
(* srand and rand of the C library: a generator with one hidden state per  *)
(* process.  rand () returns a value in 0 .. RAND_MAX.                     *)
(***************************************************************************)
RAND_MAX == 4

srand(u) == u % 31

\* the state of a process that has not called srand
RandStart == srand(1)

\* the state after one call of rand ()
rand_next(st) == (3 * st + 7) % 31

\* the value that the call returns
rand_value(st) == rand_next(st) % (RAND_MAX + 1)

RECURSIVE RandAfter(_, _)
\* the state after k calls of rand ()
RandAfter(st, k) == IF k = 0 THEN st ELSE RandAfter(rand_next(st), k - 1)

\* srandquad: the seed of the leaf with lower corner l, ten bits per axis
srandquad(l) ==
  srand(((l[2] * 1024) \div RootLen) * 1024 + (l[1] * 1024) \div RootLen)

(***************************************************************************)
(* create: the particles of each leaf.  The density integral of a leaf    *)
(* and the values of rand() after srandquad are given as tables: the       *)
(* count of a leaf and, in quarters of the leaf's extent, the offsets of   *)
(* its particles.  rand () / (double) RAND_MAX lies in [0, 1], both ends   *)
(* included, so a particle can be created on a face of its leaf.           *)
(***************************************************************************)
SeedTable(q) ==
  IF q.x = 24 /\ q.y = 24 THEN << <<1, 1>>, <<4, 1>>, <<1, 3>> >>
  ELSE IF q.x = 24 /\ q.y = 48 THEN << <<0, 1>> >>
  ELSE IF q.x = 48 /\ q.y = 48 THEN << <<1, 0>> >>
  ELSE <<>>

ilem_particles(q) == Len(SeedTable(q))

NewParticle(q, r) ==
  LET b == loopquad(q)
  IN  [xv |-> << b.lxyz[1] + (r[1] * b.dxyz[1]) \div RAND_MAX,
                 b.lxyz[2] + (r[2] * b.dxyz[2]) \div RAND_MAX >>,
       wo |-> <<0, 0>>,
       up |-> <<0, 0>>]

LocalQuads(p) ==
  SubSeq(InitQuads, p4est_partition_cut(p) + 1, p4est_partition_cut(p + 1))

\* the tables of the run, per leaf of the mesh
SeedsOfRun == [q \in Range(InitQuads) |-> SeedTable(q)]

\* create with the tables T of a run: the store of process p
CreatePadataOf(T, p) ==
  Flatten([i \in 1 .. Len(LocalQuads(p)) |->
             [j \in 1 .. Len(T[LocalQuads(p)[i]]) |->
                NewParticle(LocalQuads(p)[i], T[LocalQuads(p)[i]][j])]])

\* create with the tables T of a run: the payload of the leaves of process p
CreateLeavesOf(T, p) ==
  [i \in 1 .. Len(LocalQuads(p)) |->
     [x |-> LocalQuads(p)[i].x, y |-> LocalQuads(p)[i].y,
      level |-> LocalQuads(p)[i].level,
      lpend |-> SumSeq([j \in 1 .. i |-> Len(T[LocalQuads(p)[j]])]),
      premain |-> 0, preceive |-> 0]]

CreatePadata(p) == CreatePadataOf(SeedsOfRun, p)

CreateLeaves(p) == CreateLeavesOf(SeedsOfRun, p)

\* the tables of a second run: one particle more, in the leaf before the
\* leaf that holds three
SplitSeedTable(q) ==
  IF q.x = 0 /\ q.y = 24 THEN << <<2, 2>> >> ELSE SeedTable(q)

SplitSeedsOfRun == [q \in Range(InitQuads) |-> SplitSeedTable(q)]

\* the tables of a third run: three particles in the leaf (48,48) of the last
\* process, none elsewhere
PackSeedTable(q) ==
  IF q.x = 48 /\ q.y = 48 THEN << <<1, 2>>, <<1, 0>>, <<1, 1>> >> ELSE <<>>

PackSeedsOfRun == [q \in Range(InitQuads) |-> PackSeedTable(q)]


(***************************************************************************)
(* State.  Every variable but net, gpnum, budget and eager is a function of *)
(* the rank.                                                               *)
(*   pc      where the process is in the stage loop of sim                 *)
(*   sim     k, t, f, h and g->stage of sim                                *)
(*   padata  the particle store; xv, wo, up hold the position components   *)
(*           (up in twelfths); the velocity components act only through    *)
(*           the right-hand side, which is an input of SimStage            *)
(*   leaves  the local leaves in Morton order with their qu_data_t payload *)
(*   pfound, iremain, psend, recevs, send_req, sendes, precv, prebuf       *)
(*           the structures of one relocation pass; live holds the names   *)
(*           of those that are allocated                                   *)
(*   loclrs, glolrs   the counts of pack before and after the reduction    *)
(*   cur     lfound and the cursors prevlp, irindex, prev2, ir2 of use     *)
(*   recvi   the loop counter i of recv                                    *)
(*   net     the messages posted and not yet received, per (source, dest)  *)
(*   eager   whether the transport completes a send before it is received  *)
(*   budget  how many right-hand sides may still be other than zero      *)
(*   passno  the number of relocation passes the process has begun         *)
(*   searched  per pass, what the search and pack of the pass worked on    *)
(*           and produced                                                  *)
(*   adapt   what use had at hand between its three passes over the mesh   *)
(*   boot    the mesh, the densities and the loop state of initrp          *)
(*   mpierr  per process, the calls that have returned an error to it      *)
(*   randst  per process, the state of the generator behind rand ()        *)
(*   rkrun   a time step of one particle, stage by stage, for an order of  *)
(*           1 to 4                                                        *)
(*   tloop   the time loop of sim alone, for a deltat and a finaltime of   *)
(*           the command line: k, t, h and where the loop is               *)
(*   irp     initrp process by process: where each process is, its cycle,  *)
(*           its local and reduced values and the collectives it entered   *)
(***************************************************************************)
VARIABLES pc, sim, padata, leaves, pfound, iremain, searched, psend, recevs,
          send_req, sendes, precv, prebuf, loclrs, glolrs, cur, live, net,
          gpnum, budget, eager, passno, recvi, adapt, boot, mpierr,
          randst, rkrun, tloop, irp

vars == << pc, sim, padata, leaves, pfound, iremain, searched, psend, recevs,
           send_req, sendes, precv, prebuf, loclrs, glolrs, cur, live, net,
           gpnum, budget, eager, passno, recvi, adapt, boot, mpierr,
           randst, rkrun, tloop, irp >>

(***************************************************************************)
(* Runge-Kutta stage.  The tableaux prk in twelfths.                       *)
(***************************************************************************)
rkb == << <<>>, <<12>>, <<4, 8>>, <<6, 6, 12>> >>
rkg_heavy == << <<12>>, <<6, 6>>, <<3, 0, 9>>, <<2, 4, 4, 4>> >>

rkg == << <<12>>, <<6, 6>>, <<3, 0, 9>>, <<2, 4, 4, 2>> >>

\* the values of rk[0], rk[1] that rkrhs hands to rkstage in the model
RhsZero == <<0, 0>>
RhsSet == { <<0, -1>>, <<-1, 0>>, <<-4, 0>> }

Vec(f(_)) == << f(1), f(2) >>

rk_last_early(ord, stage) == stage >= 1 \/ ord = 1

\* lines 455 and 466-494: the stage is the last one of the order
rk_last(ord, stage) == ~(stage + 1 < ord)

\* rkstage with g->order = ord and the right-hand side rk
rkstage_order(ord, pad, rk, stage, h) ==
  LET last == rk_last(ord, stage)
      b == IF last THEN 0 ELSE rkb[ord][stage + 1]
      d == rkg[ord][stage + 1]
      wo1(i) == IF last THEN pad.wo[i] ELSE pad.xv[i] + (h * b * rk[i]) \div 12
      up1(i) == IF stage = 0
                THEN (IF ord > 1 THEN d * rk[i] ELSE pad.up[i])
                ELSE (IF last THEN pad.up[i] ELSE pad.up[i] + d * rk[i])
      xv1(i) == IF stage = 0
                THEN (IF ord > 1 THEN pad.xv[i]
                      ELSE pad.xv[i] + (h * d * rk[i]) \div 12)
                ELSE (IF last THEN pad.xv[i] + (h * (pad.up[i] + d * rk[i])) \div 12
                      ELSE pad.xv[i])
  IN  [xv |-> Vec(xv1), wo |-> Vec(wo1), up |-> Vec(up1)]

rkstage(pad, rk, stage, h) == rkstage_order(order, pad, rk, stage, h)

\* no time step of a single particle is under way
RkIdle == [order |-> 0]

particle_lookfor_xv(pad, stage) == pad.xv

\* particle_lookfor: the position the pass works with
particle_lookfor(pad, stage) == IF stage + 1 < order THEN pad.wo ELSE pad.xv

\* the loop of sim over the local leaves: how many times rkstage is called
RECURSIVE IntegrateCount(_, _)
IntegrateCount(lv, lpnum) ==
  IF lv = <<>> THEN 0
  ELSE (IF Head(lv).lpend > lpnum THEN Head(lv).lpend - lpnum ELSE 0)
       + IntegrateCount(Tail(lv), Head(lv).lpend)

NonZero(rk) == Cardinality({i \in DOMAIN rk : rk[i] # RhsZero})

\* the right-hand sides of the n particles of one stage, within the budget
RhsChoices(n) ==
  {rk \in [1 .. n -> RhsSet \cup {RhsZero}] : NonZero(rk) <= budget}

\* lines 1283-1305 of sim: rkstage for the particles the leaves count
Integrate(pads, lv, rk, stage, h) ==
  LET cnt == IF Len(pads) > 0 THEN IntegrateCount(lv, 0) ELSE 0
  IN  [i \in 1 .. Len(pads) |->
         IF i <= cnt THEN rkstage(pads[i], rk[i], stage, h) ELSE pads[i]]

Lookfor(pads, stage) ==
  [i \in 1 .. Len(pads) |-> particle_lookfor(pads[i], stage)]

(***************************************************************************)
(* Particle locator: p4est_search_all with psearch_quad and psearch_point. *)
(* A search state s holds pfound, iremain, the leaves and a log of the     *)
(* matches: zp, local_num (-1 for a remote match), the rank of the         *)
(* quadrant, and the record of zp before and after.                        *)
(***************************************************************************)
LocalMatchAlways(pori) == TRUE

\* line 569: a local match counts unless the particle is already local
LocalMatchCounts(pori) == pori < mpisize

RemoteMatchFirst(pori, pfirst) == pori < 0

RemoteMatchLast(pori, pfirst) == pori < mpisize

\* line 594: a remote match counts if unresolved or found on a higher rank
RemoteMatchCounts(pori, pfirst) ==
  pori < 0 \/ (pfirst < pori /\ pori < mpisize)

IsLocalBranchNever(pfirst, mpirank) == FALSE

\* line 584: the branch quadrant belongs to this process
IsLocalBranch(pfirst, mpirank) == pfirst = mpirank

psearch_point(p, q, pfirst, plast, local_num, zp, x, s) ==
  IF ~InBox(q, x) THEN [ret |-> 0, s |-> s]
  ELSE IF local_num >= 0
  THEN [ret |-> 0,
        s |-> IF LocalMatchCounts(s.pfound[zp + 1])
              THEN [pfound |-> [s.pfound EXCEPT ![zp + 1] = mpisize + local_num],
                    iremain |-> Append(s.iremain, zp),
                    leaves |-> [s.leaves EXCEPT ![local_num + 1].premain = @ + 1],
                    log |-> Append(s.log,
                              [zp |-> zp, local_num |-> local_num, rank |-> p,
                               before |-> s.pfound[zp + 1],
                               after |-> mpisize + local_num])]
              ELSE [s EXCEPT !.log = Append(@,
                              [zp |-> zp, local_num |-> local_num, rank |-> p,
                               before |-> s.pfound[zp + 1],
                               after |-> s.pfound[zp + 1]])]]
  ELSE IF pfirst = plast
  THEN IF IsLocalBranch(pfirst, p) THEN [ret |-> 1, s |-> s]
       ELSE [ret |-> 0,
             s |-> LET new == IF RemoteMatchCounts(s.pfound[zp + 1], pfirst)
                              THEN pfirst ELSE s.pfound[zp + 1]
                   IN  [s EXCEPT !.pfound[zp + 1] = new,
                                 !.log = Append(@,
                                   [zp |-> zp, local_num |-> -1, rank |-> pfirst,
                                    before |-> s.pfound[zp + 1], after |-> new])]]
  ELSE [ret |-> 1, s |-> s]

\* the number of a local leaf, or -1
LeafIndex(lv, q) ==
  IF \E i \in 1 .. Len(lv) : QuadOf(lv[i]) = q
  THEN (CHOOSE i \in 1 .. Len(lv) : QuadOf(lv[i]) = q) - 1
  ELSE -1

\* the point callbacks of one quadrant, for the active points in order
RECURSIVE PointLoop(_, _, _, _, _, _, _, _, _, _)
PointLoop(p, q, pfirst, plast, local_num, pts, actives, i, s, chact) ==
  IF i > Len(actives) THEN [s |-> s, chact |-> chact]
  ELSE LET zp == actives[i]
           r == psearch_point(p, q, pfirst, plast, local_num, zp, pts[zp + 1], s)
       IN  IF r.ret = 1 /\ local_num < 0
           THEN PointLoop(p, q, pfirst, plast, local_num, pts, actives, i + 1,
                          r.s, Append(chact, zp))
           ELSE PointLoop(p, q, pfirst, plast, local_num, pts, actives, i + 1,
                          r.s, chact)

RECURSIVE p4est_all_recursion(_, _, _, _, _)
p4est_all_recursion(p, q, pts, actives, s) ==
  IF actives = <<>> THEN s
  ELSE LET pfirst == pfirstOf(q)
           plast == plastOf(q)
           local_num == IF pfirst = p /\ plast = p
                        THEN LeafIndex(s.leaves, q) ELSE -1
           r == PointLoop(p, q, pfirst, plast, local_num, pts, actives, 1, s, <<>>)
           ch == Children(q)
       IN  IF r.chact = <<>> THEN r.s
           ELSE p4est_all_recursion(p, ch[4], pts, r.chact,
                  p4est_all_recursion(p, ch[3], pts, r.chact,
                    p4est_all_recursion(p, ch[2], pts, r.chact,
                      p4est_all_recursion(p, ch[1], pts, r.chact, r.s))))

\* lines 1316-1320 of sim: pfound is -1 everywhere and iremain is empty
p4est_search_all(p, pts, lv) ==
  p4est_all_recursion(p, RootQuad, pts, [i \in 1 .. Len(pts) |-> i - 1],
    [pfound |-> [i \in 1 .. Len(pts) |-> -1], iremain |-> <<>>,
     leaves |-> lv, log |-> <<>>])

(***************************************************************************)
(* Message router: pack, send, recv.                                       *)
(***************************************************************************)
\* sc_array_sort of a list of distinct ranks
RECURSIVE SortRanks(_)
SortRanks(S) ==
  IF S = {} THEN <<>>
  ELSE LET m == CHOOSE a \in S : \A b \in S : a <= b
       IN  <<m>> \o SortRanks(S \ {m})

Message3First(x) == <<x[1], x[1], 0>>

\* lines 709-712: the three doubles pack copies for a particle
Message3(x) == <<x[1], x[2], 0>>

pack_lost_uncounted(st) == st

\* lines 665-668: the particle has left the domain
pack_lost(st) == [st EXCEPT !.lostz = @ + 1]

\* lines 669-672: the particle stays on this process
pack_remain(st) == [st EXCEPT !.remainz = @ + 1]

pack_send_front(st, r, x) ==
  [st EXCEPT !.psend[r] = <<Message3(x)>> \o @,
             !.recevs = IF r \in Range(st.recevs) THEN @ ELSE Append(@, r),
             !.sendz = @ + 1]

\* lines 674-715: the particle goes into the message for rank r
pack_send(st, r, x) ==
  [st EXCEPT !.psend[r] = Append(@, Message3(x)),
             !.recevs = IF r \in Range(st.recevs) THEN @ ELSE Append(@, r),
             !.sendz = @ + 1]

RECURSIVE PackLoop(_, _, _, _)
PackLoop(pf, pts, zz, st) ==
  IF zz > Len(pf) THEN st
  ELSE IF pf[zz] < 0 THEN PackLoop(pf, pts, zz + 1, pack_lost(st))
  ELSE IF pf[zz] >= mpisize THEN PackLoop(pf, pts, zz + 1, pack_remain(st))
  ELSE PackLoop(pf, pts, zz + 1, pack_send(st, pf[zz], pts[zz]))

\* pack up to its reduction; recevs is sorted at line 720
pack(pf, pts) ==
  LET st == PackLoop(pf, pts, 1,
                     [remainz |-> 0, sendz |-> 0, lostz |-> 0,
                      psend |-> [d \in Ranks |-> <<>>], recevs |-> <<>>])
  IN  [psend |-> st.psend,
       recevs |-> SortRanks(Range(st.recevs)),
       loclrs |-> <<st.remainz, st.sendz, st.lostz, Len(st.recevs)>>]

\* what the stage has allocated when it reaches the reduction of pack
StageAllocates == {"pfound", "iremain", "psmem", "psend", "recevs"}

(***************************************************************************)
(* The stage of sim up to the first point where the process can block:     *)
(* the Runge-Kutta stage of the local particles, the search and pack up to *)
(* its reduction.  No other process sees a state in between.               *)
(***************************************************************************)
\* the values the stage computes, for the right-hand sides rk
StageResult(p, rk) ==
  LET pads == Integrate(padata[p], leaves[p], rk, sim[p].stage, sim[p].h)
      pts == Lookfor(pads, sim[p].stage)
      s == p4est_search_all(p, pts, leaves[p])
      pk == pack(s.pfound, pts)
  IN  [pads |-> pads, pts |-> pts, lv0 |-> leaves[p], lv1 |-> s.leaves,
       pfound |-> s.pfound, iremain |-> s.iremain, log |-> s.log,
       psend |-> pk.psend, recevs |-> pk.recevs, loclrs |-> pk.loclrs]

SimStage(p) ==
  /\ pc[p] = "stage"
  /\ \E rk \in RhsChoices(Len(padata[p])) :
       \E r \in {StageResult(p, rk)} :
         /\ budget' = budget - NonZero(rk)
         /\ padata' = [padata EXCEPT ![p] = r.pads]
         /\ pfound' = [pfound EXCEPT ![p] = r.pfound]
         /\ iremain' = [iremain EXCEPT ![p] = r.iremain]
         /\ leaves' = [leaves EXCEPT ![p] = r.lv1]
         /\ psend' = [psend EXCEPT ![p] = r.psend]
         /\ recevs' = [recevs EXCEPT ![p] = r.recevs]
         /\ loclrs' = [loclrs EXCEPT ![p] = r.loclrs]
         /\ searched' = [searched EXCEPT ![p] = Append(@,
              [pts |-> r.pts, lv0 |-> r.lv0, lv1 |-> r.lv1,
               pfound |-> r.pfound, iremain |-> r.iremain, log |-> r.log,
               psend |-> r.psend, recevs |-> r.recevs, loclrs |-> r.loclrs])]
  /\ live' = [live EXCEPT ![p] = StageAllocates]
  /\ passno' = [passno EXCEPT ![p] = @ + 1]
  /\ pc' = [pc EXCEPT ![p] = "reduce"]
  /\ UNCHANGED << sim, send_req, sendes, precv, prebuf, glolrs, cur, net,
                  gpnum, eager, recvi,
                  adapt, boot, mpierr,
                  randst, rkrun, tloop, irp >>

AllreduceReturns_early == \E p \in Ranks : pc[p] = "reduce"

\* lines 726-728: the reduction returns when every process has called it
AllreduceReturns == \A p \in Ranks : pc[p] = "reduce"

\* sc_MPI_Allreduce with sc_MPI_SUM at the end of pack: every process takes part
Allreduce ==
  /\ AllreduceReturns
  /\ glolrs' = [p \in Ranks |->
                  [i \in 1 .. 4 |-> SumSeq([q \in 1 .. mpisize |-> loclrs[q - 1][i]])]]
  /\ pc' = [p \in Ranks |-> IF pc[p] = "reduce" THEN "send" ELSE pc[p]]
  /\ UNCHANGED << sim, padata, leaves, pfound, iremain, searched, psend, recevs,
                  send_req, sendes, precv, prebuf, loclrs, cur, live, net,
                  gpnum, budget, eager, passno, recvi,
                  adapt, boot, mpierr,
                  randst, rkrun, tloop, irp >>

send_posts_twice(p) == recevs[p] \o recevs[p]

\* lines 760-776 of send: the destinations of the calls of sc_MPI_Isend
send_posts(p) == recevs[p]

RECURSIVE Post(_, _, _, _)
Post(nt, p, dests, i) ==
  IF i > Len(dests) THEN nt
  ELSE Post([nt EXCEPT ![<<p, dests[i]>>] =
               Append(@, [data |-> psend[p][dests[i]], pass |-> passno[p]])],
            p, dests, i + 1)

\* lines 755-776 of send: one sc_MPI_Isend per destination, in recevs order
Send(p) ==
  /\ pc[p] = "send"
  /\ send_req' = [send_req EXCEPT ![p] = recevs[p]]
  /\ net' = Post(net, p, send_posts(p), 1)
  /\ live' = [live EXCEPT ![p] = @ \cup {"send_req"}]
  /\ pc' = [pc EXCEPT ![p] = "notify"]
  /\ UNCHANGED << sim, padata, leaves, pfound, iremain, searched, psend, recevs,
                  sendes, precv, prebuf, loclrs, glolrs, cur, gpnum, budget,
                  eager, passno, recvi,
                  adapt, boot, mpierr,
                  randst, rkrun, tloop, irp >>

\* precv holds, per source rank, message.elem_size of its slot, or NoSlot
NoSlot == -1

\* sc_notify: from the receivers of every process, the senders of process q
sc_notify(q) == SortRanks({p \in Ranks : q \in Range(recevs[p])})

recv_prebuf_kept(q) == prebuf[q]

\* line 817 of recv: prebuf is a new array
recv_prebuf(q) == <<>>

\* lines 778-799 of send, and recv up to its loop: the pattern reversal, the
\* slots of precv and sendes, and an empty prebuf
Notify ==
  /\ \A p \in Ranks : pc[p] = "notify"
  /\ sendes' = [q \in Ranks |-> sc_notify(q)]
  /\ precv' = [q \in Ranks |->
                 [r \in Ranks |-> IF r \in Range(sc_notify(q)) THEN 0 ELSE NoSlot]]
  /\ prebuf' = [q \in Ranks |-> recv_prebuf(q)]
  /\ recvi' = [q \in Ranks |-> 0]
  /\ live' = [q \in Ranks |-> live[q] \cup {"precv", "sendes", "prebuf"}]
  /\ pc' = [p \in Ranks |-> "recv"]
  /\ UNCHANGED << sim, padata, leaves, pfound, iremain, searched, psend, recevs,
                  send_req, loclrs, glolrs, cur, net, gpnum, budget, eager,
                  passno,
                  adapt, boot, mpierr,
                  randst, rkrun, tloop, irp >>

recv_rounds_all(q) == mpisize - 1

recv_rounds_none(q) == 0

\* lines 824-825 of recv: the number of rounds of the loop
recv_rounds(q) == Len(sendes[q])

\* one round of the loop of recv: probe any source, then receive from it
Recv(q) ==
  /\ pc[q] = "recv"
  /\ recvi[q] < recv_rounds(q)
  /\ \E src \in Ranks :
       /\ net[<<src, q>>] # <<>>
       /\ LET m == Head(net[<<src, q>>])
          IN  /\ net' = [net EXCEPT ![<<src, q>>] = Tail(@)]
              /\ IF precv[q][src] # NoSlot
                 THEN /\ precv' = [precv EXCEPT ![q][src] = 1]
                      /\ prebuf' = [prebuf EXCEPT ![q] = @ \o m.data]
                      /\ recvi' = [recvi EXCEPT ![q] = @ + 1]
                      /\ pc' = pc
                 ELSE \* sc_hash_lookup finds nothing and hfound is not set
                      /\ pc' = [pc EXCEPT ![q] = "undefined"]
                      /\ UNCHANGED << precv, prebuf, recvi >>
  /\ UNCHANGED << sim, padata, leaves, pfound, iremain, searched, psend, recevs,
                  send_req, sendes, loclrs, glolrs, cur, live, gpnum, budget,
                  eager, passno,
                  adapt, boot, mpierr,
                  randst, rkrun, tloop, irp >>


(***************************************************************************)
(* Mesh adapter: use, with slocal_point, use_coarsen, use_refine,          *)
(* split_by_coord and use_replace.                                         *)
(***************************************************************************)
\* x[0] = -1. of slocal_point, in the model's unit of length
FoundMark == 0 - RootLen

slocal_point_unmarked(q, local_num, j, s) ==
  IF ~InBox(q, s.prebuf[j]) THEN [ret |-> 0, s |-> s]
  ELSE IF local_num >= 0
  THEN [ret |-> 0,
        s |-> [prebuf |-> s.prebuf,
               lfound |-> s.lfound + 1,
               leaves |-> [s.leaves EXCEPT ![local_num + 1].preceive = @ + 1]]]
  ELSE [ret |-> 1, s |-> s]

\* slocal_point: the callback of p4est_search_local for entry j of prebuf
slocal_point(q, local_num, j, s) ==
  IF ~InBox(q, s.prebuf[j]) THEN [ret |-> 0, s |-> s]
  ELSE IF local_num >= 0
  THEN [ret |-> 0,
        s |-> [prebuf |-> [s.prebuf EXCEPT ![j][1] = FoundMark],
               lfound |-> s.lfound + 1,
               leaves |-> [s.leaves EXCEPT ![local_num + 1].preceive = @ + 1]]]
  ELSE [ret |-> 1, s |-> s]

RECURSIVE LocalPointLoop(_, _, _, _, _, _)
LocalPointLoop(q, local_num, actives, i, s, chact) ==
  IF i > Len(actives) THEN [s |-> s, chact |-> chact]
  ELSE LET r == slocal_point(q, local_num, actives[i], s)
       IN  LocalPointLoop(q, local_num, actives, i + 1, r.s,
             IF r.ret = 1 /\ local_num < 0 THEN Append(chact, actives[i]) ELSE chact)

\* q is a local leaf or an ancestor of one
IsAncestorEq(q, l) ==
  /\ q.level <= l.level
  /\ q.x <= l.x /\ l.x < q.x + P4EST_QUADRANT_LEN(q.level)
  /\ q.y <= l.y /\ l.y < q.y + P4EST_QUADRANT_LEN(q.level)

HasLocal(lv, q) == \E i \in 1 .. Len(lv) : IsAncestorEq(q, lv[i])

RECURSIVE p4est_local_recursion(_, _, _)
p4est_local_recursion(q, actives, s) ==
  IF actives = <<>> \/ ~HasLocal(s.leaves, q) THEN s
  ELSE LET r == LocalPointLoop(q, LeafIndex(s.leaves, q), actives, 1, s, <<>>)
           ch == Children(q)
       IN  IF r.chact = <<>> THEN r.s
           ELSE p4est_local_recursion(ch[4], r.chact,
                  p4est_local_recursion(ch[3], r.chact,
                    p4est_local_recursion(ch[2], r.chact,
                      p4est_local_recursion(ch[1], r.chact, r.s))))

p4est_search_local(buf, lv) ==
  p4est_local_recursion(RootQuad, [i \in 1 .. Len(buf) |-> i],
                        [prebuf |-> buf, lfound |-> 0, leaves |-> lv])

\* line 938: the sibling group is merged
CoarsenTest(remain, receive) == 2 * (remain + receive) < elem_particles

\* quadrants has one entry when quadrants[1] == NULL
use_coarsen(quadrants, g) ==
  IF Len(quadrants) = 1
  THEN [ret |-> 0,
        g |-> [g EXCEPT !.prevlp = quadrants[1].lpend,
                        !.irindex = @ + quadrants[1].premain]]
  ELSE LET remain == SumSeq([i \in 1 .. P4EST_CHILDREN |-> quadrants[i].premain])
           receive == SumSeq([i \in 1 .. P4EST_CHILDREN |-> quadrants[i].preceive])
       IN  IF CoarsenTest(remain, receive)
           THEN [ret |-> 1, g |-> [g EXCEPT !.qremain = remain]]
           ELSE [ret |-> 0,
                 g |-> [g EXCEPT !.prevlp = quadrants[1].lpend,
                                 !.irindex = @ + quadrants[1].premain]]

use_replace_coarsen_no_cursor(outgoing, g) ==
  LET par == Parent(QuadOf(outgoing[1]))
  IN  [leaf |-> [x |-> par.x, y |-> par.y, level |-> par.level,
                 lpend |-> outgoing[P4EST_CHILDREN].lpend,
                 premain |-> g.qremain, preceive |-> -1],
       g |-> g]

use_replace_coarsen_sum_receive(outgoing, g) ==
  LET par == Parent(QuadOf(outgoing[1]))
  IN  [leaf |-> [x |-> par.x, y |-> par.y, level |-> par.level,
                 lpend |-> outgoing[P4EST_CHILDREN].lpend,
                 premain |-> g.qremain,
                 preceive |-> SumSeq([i \in 1 .. P4EST_CHILDREN |->
                                        outgoing[i].preceive])],
       g |-> [g EXCEPT !.prevlp = outgoing[P4EST_CHILDREN].lpend]]

\* use_replace, num_outgoing == P4EST_CHILDREN
use_replace_coarsen(outgoing, g) ==
  LET par == Parent(QuadOf(outgoing[1]))
  IN  [leaf |-> [x |-> par.x, y |-> par.y, level |-> par.level,
                 lpend |-> outgoing[P4EST_CHILDREN].lpend,
                 premain |-> g.qremain, preceive |-> -1],
       g |-> [g EXCEPT !.prevlp = outgoing[P4EST_CHILDREN].lpend]]

IsFamily(lv, i) ==
  /\ i + P4EST_CHILDREN - 1 <= Len(lv)
  /\ lv[i].level > 0
  /\ \A k \in 1 .. P4EST_CHILDREN :
       QuadOf(lv[i + k - 1]) = Children(Parent(QuadOf(lv[i])))[k]

\* p4est_coarsen_ext, not recursive, with callback_orphans
RECURSIVE CoarsenLoop(_, _, _)
CoarsenLoop(lv, i, g) ==
  IF i > Len(lv) THEN [leaves |-> lv, g |-> g]
  ELSE IF IsFamily(lv, i)
  THEN LET fam == SubSeq(lv, i, i + P4EST_CHILDREN - 1)
           r == use_coarsen(fam, g)
           rp == use_replace_coarsen(fam, r.g)
       IN  IF r.ret = 1
           THEN CoarsenLoop(SubSeq(lv, 1, i - 1) \o <<rp.leaf>>
                              \o SubSeq(lv, i + P4EST_CHILDREN, Len(lv)),
                            i + 1, rp.g)
           ELSE CoarsenLoop(lv, i + 1, r.g)
  ELSE CoarsenLoop(lv, i + 1, use_coarsen(<<lv[i]>>, g).g)

\* line 962: the leaf is to be split
RefineTest(premain, preceive) == premain + preceive > elem_particles

use_refine(quadrant, g) ==
  IF RefineTest(quadrant.premain, quadrant.preceive)
  THEN [ret |-> 1,
        g |-> [g EXCEPT !.prev2 = g.prevlp, !.prevlp = quadrant.lpend,
                        !.ir2 = g.irindex, !.irindex = @ + quadrant.premain]]
  ELSE [ret |-> 0,
        g |-> [g EXCEPT !.prevlp = quadrant.lpend,
                        !.irindex = @ + quadrant.premain]]

\* line 1008: the particle goes to the lower side
LowerSide(x, lo, d) == 2 * x <= 2 * lo + d

RECURSIVE split_by_coord(_, _, _, _, _)
split_by_coord(in, component, lxyz, dxyz, pts) ==
  IF in = <<>> THEN << <<>>, <<>> >>
  ELSE LET rest == split_by_coord(Tail(in), component, lxyz, dxyz, pts)
           ppos == Head(in)
       IN  IF LowerSide(pts[ppos + 1][component], lxyz[component], dxyz[component])
           THEN << <<ppos>> \o rest[1], rest[2] >>
           ELSE << rest[1], <<ppos>> \o rest[2] >>

\* line 1086: where in iremain the lists of the children are written
ChildListStart(g) == 0

\* the values a field of a fresh quadrant payload can hold: p4est_refine_ext
\* takes the payload of a child from the pool and runs no init function
Indeterminate == {-1, 0}

child_lpend_own(parent_lpend, count) == parent_lpend + count

\* line 1120: u.lpend of a child of a split that keeps count particles
child_lpend(parent_lpend, count) == parent_lpend

\* use_replace, num_outgoing == 1.  The view of line 1078 must lie in iremain.
use_replace_refine(outgoing, g, ir, pts, junk) ==
  LET irbeg == g.ir2
      irem == g.irindex - irbeg
      inside == irem >= 0 /\ irbeg + irem <= Len(ir)
                /\ \A i \in 1 .. Len(ir) : ir[i] >= 0 /\ ir[i] < Len(pts)
      iview == SubSeq(ir, irbeg + 1, irbeg + irem)
      b == loopquad(QuadOf(outgoing))
      jlh == split_by_coord(iview, 2, b.lxyz, b.dxyz, pts)
      ilh0 == split_by_coord(jlh[1], 1, b.lxyz, b.dxyz, pts)
      ilh1 == split_by_coord(jlh[2], 1, b.lxyz, b.dxyz, pts)
      arrs == << ilh0[1], ilh0[2], ilh1[1], ilh1[2] >>
      all == arrs[1] \o arrs[2] \o arrs[3] \o arrs[4]
      st == ChildListStart(g)
      ch == Children(QuadOf(outgoing))
  IN  IF ~inside \/ st + Len(all) > Len(ir)
      THEN [ub |-> TRUE, children |-> <<>>, iremain |-> ir]
      ELSE [ub |-> FALSE,
            children |-> [k \in 1 .. P4EST_CHILDREN |->
                            [x |-> ch[k].x, y |-> ch[k].y, level |-> ch[k].level,
                             lpend |-> child_lpend(outgoing.lpend, Len(arrs[k])),
                             premain |-> Len(arrs[k]),
                             preceive |-> junk[k]]],
            iremain |-> SubSeq(ir, 1, st) \o all
                          \o SubSeq(ir, st + Len(all) + 1, Len(ir))]

\* p4est_refine_ext, not recursive, to level maxlevel - bricklev
RECURSIVE RefineLoop(_, _, _, _, _, _)
RefineLoop(lv, i, g, ir, pts, junk) ==
  IF i > Len(lv) THEN [leaves |-> lv, g |-> g, iremain |-> ir, ub |-> FALSE]
  ELSE LET r == use_refine(lv[i], g)
           rp == use_replace_refine(lv[i], r.g, ir, pts, junk)
           \* what this call of use_replace had and left, for the record
           lg == [r.g EXCEPT !.splits = Append(@,
                    [parent |-> lv[i], at |-> i, ir2 |-> r.g.ir2,
                     irindex |-> r.g.irindex, prev2 |-> r.g.prev2,
                     prevlp |-> r.g.prevlp, before |-> ir,
                     after |-> rp.iremain, children |-> rp.children,
                     ub |-> rp.ub])]
       IN  IF r.ret = 1 /\ lv[i].level < maxlevel
           THEN IF rp.ub
                THEN [leaves |-> lv, g |-> lg, iremain |-> ir, ub |-> TRUE]
                ELSE RefineLoop(SubSeq(lv, 1, i - 1) \o rp.children
                                  \o SubSeq(lv, i + 1, Len(lv)),
                                i + P4EST_CHILDREN, lg, rp.iremain, pts, junk)
           ELSE RefineLoop(lv, i + 1, r.g, ir, pts, junk)

\* splits is the record of the calls of use_replace of the refine pass
CurZero ==
  [lfound |-> 0, c_prevlp |-> 0, c_irindex |-> 0, prevlp |-> 0, irindex |-> 0,
   prev2 |-> 0, ir2 |-> 0, qremain |-> 0, splits |-> <<>>]

\* the mesh after the local search and after the coarsening of use
AdaptZero == [sl |-> <<>>, co |-> <<>>]

UseDestroysSendSide == {"sendes", "precv", "recevs", "psend"}

\* lines 1204-1206: what use destroys at its end
UseDestroys == {"sendes", "precv"}

\* the payloads of the children of a split, when a leaf is split
JunkChoices(lv) ==
  IF \E i \in 1 .. Len(lv) :
       RefineTest(lv[i].premain, lv[i].preceive) /\ lv[i].level < maxlevel
  THEN [1 .. P4EST_CHILDREN -> Indeterminate]
  ELSE {[k \in 1 .. P4EST_CHILDREN |-> 0]}

\* lines 1162-1172 of use: the local search and the coarsening
UseCoarsened(p) ==
  LET sl == p4est_search_local(prebuf[p], leaves[p])
      co == CoarsenLoop(sl.leaves, 1,
              [cur[p] EXCEPT !.lfound = sl.lfound, !.prevlp = 0, !.irindex = 0])
  IN  [prebuf |-> sl.prebuf, sl |-> sl.leaves, leaves |-> co.leaves,
       g |-> [co.g EXCEPT !.c_prevlp = co.g.prevlp, !.c_irindex = co.g.irindex,
                          !.prevlp = 0, !.prev2 = 0, !.irindex = 0, !.ir2 = 0,
                          !.splits = <<>>]]

\* recv has left its loop; use
Use(p) ==
  /\ pc[p] = "recv"
  /\ recvi[p] = recv_rounds(p)
  /\ \E co \in {UseCoarsened(p)} :
       \E junk \in JunkChoices(co.leaves) :
         \E re \in {RefineLoop(co.leaves, 1, co.g, iremain[p],
                               Lookfor(padata[p], sim[p].stage), junk)} :
           /\ prebuf' = [prebuf EXCEPT ![p] = co.prebuf]
           /\ leaves' = [leaves EXCEPT ![p] = re.leaves]
           /\ cur' = [cur EXCEPT ![p] = re.g]
           /\ adapt' = [adapt EXCEPT ![p] = [sl |-> co.sl, co |-> co.leaves]]
           /\ iremain' = [iremain EXCEPT ![p] = re.iremain]
           /\ IF re.ub
              THEN /\ pc' = [pc EXCEPT ![p] = "undefined"]
                   /\ live' = live
              ELSE /\ pc' = [pc EXCEPT ![p] = "wait"]
                   /\ live' = [live EXCEPT ![p] = @ \ UseDestroys]
  /\ UNCHANGED << sim, padata, pfound, searched, psend, recevs, send_req, sendes,
                  precv, loclrs, glolrs, net, gpnum, budget, eager, passno,
                  recvi, boot, mpierr,
                  randst, rkrun, tloop, irp >>

(***************************************************************************)
(* wait, and the end of the stage loop of sim.                             *)
(***************************************************************************)
\* sc_MPI_Waitall returns: every message was received, or the transport
\* has taken a copy of it
SendsComplete(p) ==
  eager \/ \A d \in Range(send_req[p]) : net[<<p, d>>] = <<>>

sim_step_uncut(dt, T, t) == [f |-> t + dt, h |-> dt]

\* lines 1268-1273: h and f of the step that starts at time t, for the
\* time step size dt and the final time T
sim_step(dt, T, t) ==
  LET f0 == t + dt
      cut == 1000 * f0 > 1000 * T - dt
      f == IF cut THEN T ELSE f0
  IN  [f |-> f, h |-> IF cut THEN f - t ELSE dt]

\* the head of the time loop: the step that starts at time t
StepFrom(k, t) ==
  [k |-> k, t |-> t, f |-> sim_step(deltat, finaltime, t).f,
   h |-> sim_step(deltat, finaltime, t).h, stage |-> 0]

\* the time loop of sim is not looked at on its own
TimeIdle == [at |-> "idle"]

\* the processes of initrp are not looked at one by one
IrpIdle == [at |-> [p \in Ranks |-> "idle"]]

NextStage_step(s) == StepFrom(s.k + 1, s.f)

\* lines 1277 and 1349-1351: ++g->stage, and ++k and t = f after the last stage
NextStage(s) ==
  IF s.stage + 1 < order THEN [s EXCEPT !.stage = @ + 1]
  ELSE StepFrom(s.k + 1, s.f)

\* wait, then lines 1330-1335 and the loop heads of sim
Wait(p) ==
  /\ pc[p] = "wait"
  /\ recevs[p] # <<>> => SendsComplete(p)
  /\ psend' = [psend EXCEPT ![p] = [d \in Ranks |-> <<>>]]
  /\ live' = [live EXCEPT ![p] = {}]
  /\ sim' = [sim EXCEPT ![p] = NextStage(sim[p])]
  /\ pc' = [pc EXCEPT ![p] =
              IF NextStage(sim[p]).t < finaltime THEN "stage" ELSE "done"]
  /\ UNCHANGED << padata, leaves, pfound, iremain, searched, recevs, send_req,
                  sendes, precv, prebuf, loclrs, glolrs, cur, net, gpnum, budget,
                  eager, passno, recvi,
                  adapt, boot, mpierr,
                  randst, rkrun, tloop, irp >>

(***************************************************************************)
(* Error returns of the MPI calls of a relocation pass.  mpiret is tested  *)
(* by SC_CHECK_MPI after sc_MPI_Allreduce (728), sc_MPI_Isend (775),       *)
(* sc_MPI_Probe (828), sc_MPI_Recv (856) and sc_MPI_Waitall (1227); the    *)
(* value that sc_MPI_Get_count returns (830) is overwritten by the return  *)
(* of sc_MPI_Recv and never tested.                                        *)
(***************************************************************************)
\* SC_CHECK_MPI on an error of call: sc_abort ends the run on all processes
sc_abort(p, calls) ==
  /\ mpierr' = [mpierr EXCEPT ![p] = @ \cup calls]
  /\ pc' = [q \in Ranks |-> "aborted"]

CheckedCalls_all == {"Allreduce", "Isend", "Probe", "Recv", "Waitall"}

\* a message that sc_MPI_Probe can report to process q
Probed(q) == {src \in Ranks : net[<<src, q>>] # <<>>}

\* the calls followed by SC_CHECK_MPI that process p can be in
CheckedCalls(p) ==
  (IF pc[p] = "reduce" THEN {"Allreduce"} ELSE {})
    \cup (IF pc[p] = "send" /\ recevs[p] # <<>> THEN {"Isend"} ELSE {})
    \cup (IF pc[p] = "recv" /\ recvi[p] < recv_rounds(p) THEN {"Probe"} ELSE {})
    \cup (IF pc[p] = "recv" /\ recvi[p] < recv_rounds(p) /\ Probed(p) # {}
          THEN {"Recv"} ELSE {})
    \cup (IF pc[p] = "wait" /\ recevs[p] # <<>> THEN {"Waitall"} ELSE {})

\* a tested call of process p returns an error
MpiFails(p) ==
  /\ \E call \in CheckedCalls(p) : sc_abort(p, {call})
  /\ UNCHANGED << sim, padata, leaves, pfound, iremain, searched, psend, recevs,
                  send_req, sendes, precv, prebuf, loclrs, glolrs, cur, live,
                  net, gpnum, budget, eager, passno, recvi, adapt, boot, randst, rkrun, tloop, irp >>

\* what an entry of prebuf holds that no receive has written
UninitPoints == {<<0, 0, 0>>, <<RootLen, RootLen, 0>>}

\* the entries of msg after a receive of data with room for zcount entries
Received_into(data, zcount) ==
  {data \o pad : pad \in [1 .. zcount - Len(data) -> UninitPoints]}

\* a round of the loop of recv in which sc_MPI_Get_count returns an error:
\* bcount is indeterminate (zcount entries of prebuf), and sc_MPI_Recv
\* returns an error if the message is longer than bcount
GetCountFails(q) ==
  /\ pc[q] = "recv"
  /\ recvi[q] < recv_rounds(q)
  /\ \E src \in Probed(q), zcount \in 0 .. MaxZcount :
       LET m == Head(net[<<src, q>>])
       IN  IF precv[q][src] = NoSlot
           THEN /\ pc' = [pc EXCEPT ![q] = "undefined"]
                /\ mpierr' = [mpierr EXCEPT ![q] = @ \cup {"Get_count"}]
                /\ UNCHANGED << precv, prebuf, recvi, net >>
           ELSE IF zcount < Len(m.data)
           THEN /\ sc_abort(q, {"Get_count", "Recv"})
                /\ UNCHANGED << precv, prebuf, recvi, net >>
           ELSE /\ mpierr' = [mpierr EXCEPT ![q] = @ \cup {"Get_count"}]
                /\ net' = [net EXCEPT ![<<src, q>>] = Tail(@)]
                /\ precv' = [precv EXCEPT ![q][src] = 1]
                /\ \E msg \in Received_into(m.data, zcount) :
                     prebuf' = [prebuf EXCEPT ![q] = @ \o msg]
                /\ recvi' = [recvi EXCEPT ![q] = @ + 1]
                /\ pc' = pc
  /\ UNCHANGED << sim, padata, leaves, pfound, iremain, searched, psend, recevs,
                  send_req, sendes, loclrs, glolrs, cur, live, gpnum, budget,
                  eager, passno, adapt, boot, randst, rkrun, tloop, irp >>

(***************************************************************************)
(* Density-driven bootstrap: initrp with integrate, pidense and            *)
(* initrp_refine.  boot holds num_particles, the cycle, the mesh in Morton *)
(* order (per leaf its owner and its u.d), global_density, the reduced     *)
(* maximum count and the processes that are through the current phase.    *)
(* Densities are integers: pidense in units of gnorm / 10000, lengths in   *)
(* units of the distance of the Simpson points of a leaf at maxlevel.      *)
(***************************************************************************)
\* exp (-.5 * (x - center[0])^2 * invs2) and the same for y, in hundredths,
\* at the multiples of RootLen / 16; run sets sigma = .1, center = (.3, .4)
pidense_x == <<1, 6, 22, 53, 88, 99, 75, 39, 14, 3, 1, 0, 0, 0, 0, 0, 0>>
pidense_y == <<0, 0, 2, 10, 32, 68, 97, 93, 61, 27, 8, 2, 0, 0, 0, 0, 0>>

SimpsonStep == P4EST_QUADRANT_LEN(maxlevel + 1)

pidense(x, y) ==
  pidense_x[x \div SimpsonStep + 1] * pidense_y[y \div SimpsonStep + 1]

\* the weights of Simpson's rule, in sixths
simpson == <<1, 4, 1>>

\* integrate: the 3 x 3 rule over the box of a leaf, times 36
integrate(lxyz, dxyz) ==
  SumSeq(Flatten([j \in 1 .. 3 |-> [i \in 1 .. 3 |->
    simpson[j] * (dxyz[2] \div SimpsonStep)
      * simpson[i] * (dxyz[1] \div SimpsonStep)
      * pidense(lxyz[1] + ((i - 1) * dxyz[1]) \div 2,
                lxyz[2] + ((j - 1) * dxyz[2]) \div 2)]]))

\* round (a / b) for a >= 0 and b > 0
round(a, b) == (2 * a + b) \div (2 * b)

\* lines 247-248 and 306-307: the expected particle count for a density d
expected_particles(d, b) == round(d * b.num, b.global_density)

initrp_refine_twice(leaf, b) == expected_particles(leaf.d, b) > 2 * elem_particles

\* initrp_refine
initrp_refine(leaf, b) == expected_particles(leaf.d, b) > elem_particles

max_cycles == maxlevel - minlevel

InitrpStopEarly(cycle, ilem) == cycle >= max_cycles \/ ilem <= 2 * elem_particles

InitrpStopNoBudget(cycle, ilem) == ilem <= elem_particles

\* line 312: the loop of initrp is left
InitrpStop(cycle, ilem) == cycle >= max_cycles \/ ilem <= elem_particles

\* p4est_partition with equal weights: the first leaf of process p among n
BootCut(n, p) == (n * p) \div mpisize

BootOwner(n, i) ==
  CHOOSE p \in Ranks : BootCut(n, p) < i /\ i <= BootCut(n, p + 1)

BootLeaf(q, owner, d) ==
  [x |-> q.x, y |-> q.y, level |-> q.level, owner |-> owner, d |-> d]

\* the forest of p4est_new_ext, before the first cycle of initrp
BootStart(num) ==
  [phase |-> "integrate", cycle |-> 0, num |-> num, done |-> {},
   mesh |-> [i \in 1 .. Len(InitQuads) |->
               BootLeaf(InitQuads[i], BootOwner(Len(InitQuads), i), 0)],
   global_density |-> 0, ilem |-> 0, old_gnum |-> 0]

\* SC_MAX over the entries of s, from 0
MaxSeq(s) == CHOOSE m \in Range(s) \cup {0} : \A i \in 1 .. Len(s) : s[i] <= m

\* the quadrants initrp can meet: the leaves of the first forest and
\* their children
BootQuads == Range(InitQuads) \cup UNION {Range(Children(q)) : q \in Range(InitQuads)}

\* lines 278-285: loopquad and integrate on a leaf, stored in its u.d
LeafDensity ==
  [q \in BootQuads |-> integrate(loopquad(q).lxyz, loopquad(q).dxyz)]

\* lines 273-288: process p integrates the density over its leaves
initrp_integrate(b, p) ==
  [b EXCEPT !.done = @ \cup {p},
            !.mesh = [i \in 1 .. Len(b.mesh) |->
                        IF b.mesh[i].owner = p
                        THEN [b.mesh[i] EXCEPT !.d = LeafDensity[QuadOf(b.mesh[i])]]
                        ELSE b.mesh[i]]]

\* lines 291-314: the two reductions and the test that ends the loop
initrp_reduce(b) ==
  LET gd == SumSeq([i \in 1 .. Len(b.mesh) |-> b.mesh[i].d])
      maxd == MaxSeq([i \in 1 .. Len(b.mesh) |-> b.mesh[i].d])
      r == [b EXCEPT !.global_density = gd, !.done = {},
                     !.old_gnum = Len(b.mesh)]
      il == expected_particles(maxd, r)
  IN  [r EXCEPT !.ilem = il,
                !.phase = IF InitrpStop(b.cycle, il) THEN "returned" ELSE "refine"]

\* p4est_refine_ext, not recursive, on the leaves of process p.  The u.d of
\* a new leaf is set by the next cycle before anything reads it.
initrp_split(b, p) ==
  [b EXCEPT !.done = @ \cup {p},
            !.mesh = Flatten([i \in 1 .. Len(b.mesh) |->
                        IF /\ b.mesh[i].owner = p
                           /\ b.mesh[i].level < maxlevel
                           /\ initrp_refine(b.mesh[i], b)
                        THEN [k \in 1 .. P4EST_CHILDREN |->
                                BootLeaf(Children(QuadOf(b.mesh[i]))[k], p, 0)]
                        ELSE << b.mesh[i] >>])]

\* lines 320-325: no quadrant was added globally
NoneAdded(b) == Len(b.mesh) = b.old_gnum

\* lines 320-334 and the loop head: SC_ABORT_NOT_REACHED if nothing was
\* added, else p4est_partition and the next cycle
initrp_partition(b) ==
  IF NoneAdded(b)
  THEN [b EXCEPT !.done = {}, !.phase = "aborted"]
  ELSE [b EXCEPT !.done = {}, !.phase = "integrate", !.cycle = @ + 1,
                 !.mesh = [i \in 1 .. Len(b.mesh) |->
                             [b.mesh[i] EXCEPT !.owner = BootOwner(Len(b.mesh), i)]]]

\* what sim and create leave alone
simvars == << pc, sim, padata, leaves, pfound, iremain, searched, psend, recevs,
              send_req, sendes, precv, prebuf, loclrs, glolrs, cur, live, net,
              gpnum, budget, eager, passno, recvi, adapt,
              mpierr, randst, rkrun, tloop, irp >>

BootIntegrate(p) ==
  /\ boot.phase = "integrate"
  /\ p \notin boot.done
  /\ boot' = initrp_integrate(boot, p)
  /\ UNCHANGED simvars

BootAllreduce ==
  /\ boot.phase = "integrate"
  /\ boot.done = Ranks
  /\ boot' = initrp_reduce(boot)
  /\ UNCHANGED simvars

BootRefine(p) ==
  /\ boot.phase = "refine"
  /\ p \notin boot.done
  /\ boot' = initrp_split(boot, p)
  /\ UNCHANGED simvars

BootPartition ==
  /\ boot.phase = "refine"
  /\ boot.done = Ranks
  /\ boot' = initrp_partition(boot)
  /\ UNCHANGED simvars

\* in the runs of sim the bootstrap is over and has left the mesh InitQuads
BootReturned == [phase |-> "returned"]

(***************************************************************************)
(* The run                                                                 *)
(***************************************************************************)
\* the state after create with the tables T, but for the budget and the
\* transport
CreatedWith(T) ==
  /\ pc = [p \in Ranks |-> IF 0 < finaltime THEN "stage" ELSE "done"]
  /\ sim = [p \in Ranks |-> StepFrom(0, 0)]
  /\ padata = [p \in Ranks |-> CreatePadataOf(T, p)]
  /\ leaves = [p \in Ranks |-> CreateLeavesOf(T, p)]
  /\ gpnum = SumSeq([q \in 1 .. mpisize |-> Len(CreatePadataOf(T, q - 1))])
  /\ pfound = [p \in Ranks |-> <<>>]
  /\ iremain = [p \in Ranks |-> <<>>]
  /\ searched = [p \in Ranks |-> <<>>]
  /\ psend = [p \in Ranks |-> [d \in Ranks |-> <<>>]]
  /\ recevs = [p \in Ranks |-> <<>>]
  /\ send_req = [p \in Ranks |-> <<>>]
  /\ sendes = [p \in Ranks |-> <<>>]
  /\ precv = [p \in Ranks |-> [r \in Ranks |-> NoSlot]]
  /\ prebuf = [p \in Ranks |-> <<>>]
  /\ loclrs = [p \in Ranks |-> <<0, 0, 0, 0>>]
  /\ glolrs = [p \in Ranks |-> <<0, 0, 0, 0>>]
  /\ cur = [p \in Ranks |-> CurZero]
  /\ adapt = [p \in Ranks |-> AdaptZero]
  /\ boot = BootReturned
  /\ live = [p \in Ranks |-> {}]
  /\ net = [c \in Ranks \X Ranks |-> <<>>]
  /\ passno = [p \in Ranks |-> 0]
  /\ recvi = [p \in Ranks |-> 0]
  /\ mpierr = [p \in Ranks |-> {}]
  /\ randst = [p \in Ranks |-> RandStart]

Created == CreatedWith(SeedsOfRun)

Init == Created /\ budget = MaxMoves /\ eager \in BOOLEAN /\ rkrun = RkIdle /\ tloop = TimeIdle /\ irp = IrpIdle

Next ==
  \/ \E p \in Ranks : SimStage(p)
  \/ Allreduce
  \/ \E p \in Ranks : Send(p)
  \/ Notify
  \/ \E p \in Ranks : Recv(p)
  \/ \E p \in Ranks : Use(p)
  \/ \E p \in Ranks : Wait(p)

Spec == Init /\ [][Next]_vars

\* before create: no particle exists and no relocation pass has run
NotCreated ==
  /\ pc = [p \in Ranks |-> "initrp"]
  /\ sim = [p \in Ranks |-> StepFrom(0, 0)]
  /\ padata = [p \in Ranks |-> <<>>]
  /\ leaves = [p \in Ranks |-> <<>>]
  /\ gpnum = 0
  /\ pfound = [p \in Ranks |-> <<>>]
  /\ iremain = [p \in Ranks |-> <<>>]
  /\ searched = [p \in Ranks |-> <<>>]
  /\ psend = [p \in Ranks |-> [d \in Ranks |-> <<>>]]
  /\ recevs = [p \in Ranks |-> <<>>]
  /\ send_req = [p \in Ranks |-> <<>>]
  /\ sendes = [p \in Ranks |-> <<>>]
  /\ precv = [p \in Ranks |-> [r \in Ranks |-> NoSlot]]
  /\ prebuf = [p \in Ranks |-> <<>>]
  /\ loclrs = [p \in Ranks |-> <<0, 0, 0, 0>>]
  /\ glolrs = [p \in Ranks |-> <<0, 0, 0, 0>>]
  /\ cur = [p \in Ranks |-> CurZero]
  /\ adapt = [p \in Ranks |-> AdaptZero]
  /\ live = [p \in Ranks |-> {}]
  /\ net = [c \in Ranks \X Ranks |-> <<>>]
  /\ passno = [p \in Ranks |-> 0]
  /\ recvi = [p \in Ranks |-> 0]
  /\ mpierr = [p \in Ranks |-> {}]
  /\ randst = [p \in Ranks |-> RandStart]
  /\ budget = 0
  /\ eager = FALSE

\* run up to the call of initrp, for the numbers of particles of the model
BootInit ==
  /\ NotCreated
  /\ rkrun = RkIdle /\ tloop = TimeIdle /\ irp = IrpIdle
  /\ boot \in {BootStart(num) : num \in 1 .. MaxParticles}

BootNext ==
  \/ \E p \in Ranks : BootIntegrate(p)
  \/ BootAllreduce
  \/ \E p \in Ranks : BootRefine(p)
  \/ BootPartition

BootSpec == BootInit /\ [][BootNext]_vars

\* every process keeps running initrp and the collectives complete
BootLiveSpec == BootInit /\ [][BootNext]_vars /\ WF_vars(BootNext)

(***************************************************************************)
(* initrp process by process.  Each process has its own cycle counter,     *)
(* its own copies of the reduced values and takes its own decision to      *)
(* leave the loop.  The collectives are the two reductions (294, 303), the *)
(* count of the quadrants at the end of p4est_refine_ext (318) and         *)
(* p4est_partition (334); a process leaves the n-th collective it has      *)
(* entered when every process has entered the same collective as its       *)
(* n-th.                                                                   *)
(***************************************************************************)
IrpStart(num) ==
  [num |-> num, mesh |-> BootStart(num).mesh,
   at |-> [p \in Ranks |-> "integrate"],
   cycle |-> [p \in Ranks |-> 0],
   ld |-> [p \in Ranks |-> 0],
   refine_maxd |-> [p \in Ranks |-> 0],
   global_density |-> [p \in Ranks |-> 0],
   ilem |-> [p \in Ranks |-> 0],
   gnum |-> [p \in Ranks |-> Len(InitQuads)],
   old_gnum |-> [p \in Ranks |-> 0],
   hist |-> [p \in Ranks |-> <<>>]]

\* what process p knows of the forest and of the reduced values
IrpView(p) ==
  [phase |-> irp.at[p], cycle |-> irp.cycle[p], num |-> irp.num, done |-> {},
   mesh |-> irp.mesh, global_density |-> irp.global_density[p],
   ilem |-> irp.ilem[p], old_gnum |-> irp.old_gnum[p]]

\* the u.d of the leaves of process p, in the order of the mesh
OwnDensities(mesh, p) ==
  LET own == SelectSeq([i \in 1 .. Len(mesh) |-> i],
                       LAMBDA i : mesh[i].owner = p)
  IN  [j \in 1 .. Len(own) |-> mesh[own[j]].d]

\* the values of f over the processes, by rank
ByRank(f) == [i \in 1 .. mpisize |-> f[i - 1]]

\* every process has entered, as its n-th, the collective that process p
\* has entered as its n-th and is in
AllIn(p) ==
  LET n == Len(irp.hist[p])
  IN  \A q \in Ranks :
        Len(irp.hist[q]) >= n /\ irp.hist[q][n] = irp.hist[p][n]

initrp_glolp_local(glolp0, refine_maxd) == refine_maxd

\* lines 306-307: the density that ilem_particles is computed from
initrp_glolp(glolp0, refine_maxd) == glolp0

irpvars == << pc, sim, padata, leaves, pfound, iremain, searched, psend, recevs,
              send_req, sendes, precv, prebuf, loclrs, glolrs, cur, live, net,
              gpnum, budget, eager, passno, recvi, adapt, boot, mpierr,
              randst, rkrun, tloop >>

\* lines 273-294: the loop over the local leaves, up to the call of the
\* first reduction
IrpIntegrate(p) ==
  /\ irp.at[p] = "integrate"
  /\ LET m == initrp_integrate(IrpView(p), p).mesh
     IN  irp' = [irp EXCEPT !.mesh = m,
                            !.ld[p] = SumSeq(OwnDensities(m, p)),
                            !.refine_maxd[p] = MaxSeq(OwnDensities(m, p)),
                            !.at[p] = "sum",
                            !.hist[p] = Append(@, "sum")]
  /\ UNCHANGED irpvars

\* lines 294-303: the sum returns and the process calls the maximum
IrpSum(p) ==
  /\ irp.at[p] = "sum"
  /\ AllIn(p)
  /\ irp' = [irp EXCEPT !.global_density[p] = SumSeq(ByRank(irp.ld)),
                        !.at[p] = "max",
                        !.hist[p] = Append(@, "max")]
  /\ UNCHANGED irpvars

\* lines 303-314: the maximum returns and the process decides to leave the
\* loop or to refine
IrpMax(p) ==
  /\ irp.at[p] = "max"
  /\ AllIn(p)
  /\ LET il == expected_particles(
                 initrp_glolp(MaxSeq(ByRank(irp.refine_maxd)),
                              irp.refine_maxd[p]), IrpView(p))
     IN  irp' = [irp EXCEPT !.ilem[p] = il,
                            !.at[p] = IF InitrpStop(irp.cycle[p], il)
                                      THEN "returned" ELSE "refine"]
  /\ UNCHANGED irpvars

\* lines 317-318: p4est_refine_ext splits the local leaves and enters the
\* count of the quadrants of all processes
IrpRefine(p) ==
  /\ irp.at[p] = "refine"
  /\ irp' = [irp EXCEPT !.old_gnum[p] = irp.gnum[p],
                        !.mesh = initrp_split(IrpView(p), p).mesh,
                        !.at[p] = "count",
                        !.hist[p] = Append(@, "count")]
  /\ UNCHANGED irpvars

\* lines 318-334: the count returns; the process aborts if nothing was
\* added and calls p4est_partition otherwise.  The leaves change their
\* owners when the last process has called it.
IrpCount(p) ==
  /\ irp.at[p] = "count"
  /\ AllIn(p)
  /\ LET new_gnum == Len(irp.mesh)
         n == Len(irp.hist[p]) + 1
         last == \A q \in Ranks \ {p} :
                   Len(irp.hist[q]) >= n /\ irp.hist[q][n] = "partition"
         v == [IrpView(p) EXCEPT !.old_gnum = irp.gnum[p]]
     IN  IF irp.old_gnum[p] = new_gnum
         THEN irp' = [irp EXCEPT !.gnum[p] = new_gnum, !.at[p] = "aborted"]
         ELSE irp' = [irp EXCEPT !.gnum[p] = new_gnum,
                                 !.mesh = IF last THEN initrp_partition(v).mesh
                                          ELSE @,
                                 !.at[p] = "partition",
                                 !.hist[p] = Append(@, "partition")]
  /\ UNCHANGED irpvars

\* lines 334 and 271: p4est_partition returns and the next cycle begins
IrpPartition(p) ==
  /\ irp.at[p] = "partition"
  /\ AllIn(p)
  /\ irp' = [irp EXCEPT !.cycle[p] = @ + 1, !.at[p] = "integrate"]
  /\ UNCHANGED irpvars

\* run up to the call of initrp, for the numbers of particles of the model
IrpInit ==
  /\ NotCreated
  /\ rkrun = RkIdle /\ tloop = TimeIdle
  /\ boot = BootReturned
  /\ irp \in {IrpStart(num) : num \in 1 .. MaxParticles}

IrpNext ==
  \E p \in Ranks :
    \/ IrpIntegrate(p)
    \/ IrpSum(p)
    \/ IrpMax(p)
    \/ IrpRefine(p)
    \/ IrpCount(p)
    \/ IrpPartition(p)

IrpSpec == IrpInit /\ [][IrpNext]_vars

(***************************************************************************)
(* create, from the forest and the densities that initrp has left.         *)
(***************************************************************************)
RECURSIVE initrp_on(_, _, _)
\* step(b, p) on the processes from p on
initrp_on(b, p, split) ==
  IF p = mpisize THEN b
  ELSE initrp_on(IF split THEN initrp_split(b, p) ELSE initrp_integrate(b, p),
                 p + 1, split)

RECURSIVE initrp(_)
\* the loop of initrp, on all processes
initrp(b) ==
  IF b.phase = "integrate" THEN initrp(initrp_reduce(initrp_on(b, 0, FALSE)))
  ELSE IF b.phase = "refine" THEN initrp(initrp_partition(initrp_on(b, 0, TRUE)))
  ELSE b

\* the forest that initrp leaves when size processes run it: the partition
\* has no part in the refinement
ForestOf(num, size) ==
  LET b == initrp(BootStart(num))
  IN  [phase |-> b.phase, cycle |-> b.cycle, num |-> num, done |-> {},
       global_density |-> b.global_density, ilem |-> b.ilem,
       old_gnum |-> b.old_gnum, size |-> size,
       mesh |-> [i \in 1 .. Len(b.mesh) |->
                   [b.mesh[i] EXCEPT !.owner =
                      CHOOSE q \in 0 .. size - 1 :
                        /\ (Len(b.mesh) * q) \div size < i
                        /\ i <= (Len(b.mesh) * (q + 1)) \div size]]]

\* the leaves of process p, in Morton order
LocalLeaves(b, p) == SelectSeq(b.mesh, LAMBDA leaf : leaf.owner = p)

create_seed_kept(st, l) == st

\* line 388: srandquad before the particles of a leaf
create_seed(st, l) == srandquad(l)

create_lpend_count(lpnum, ilem) == ilem

\* lines 404-405: u.lpend of a leaf
create_lpend(lpnum, ilem) == lpnum + ilem

\* lines 389-403: particle j of the leaf q, with rand in state st before the
\* particles of the leaf
create_particle(q, st, j) ==
  NewParticle(q, << rand_value(RandAfter(st, 2 * (j - 1))),
                    rand_value(RandAfter(st, 2 * (j - 1) + 1)) >>)

RECURSIVE create_loop(_, _, _, _)
\* lines 372-407: the loop over the local leaves lv, from leaf i on
create_loop(b, lv, i, acc) ==
  IF i > Len(lv) THEN acc
  ELSE LET q == QuadOf(lv[i])
           ilem == expected_particles(lv[i].d, b)
           st == create_seed(acc.st, loopquad(q).lxyz)
       IN  create_loop(b, lv, i + 1,
             [pads |-> acc.pads \o [j \in 1 .. ilem |-> create_particle(q, st, j)],
              leaves |-> Append(acc.leaves,
                           [x |-> q.x, y |-> q.y, level |-> q.level,
                            lpend |-> create_lpend(Len(acc.pads), ilem),
                            premain |-> 0, preceive |-> 0]),
              st |-> RandAfter(st, 2 * ilem)])

\* create up to its reduction, on process p
Create(p) ==
  /\ boot.phase = "returned"
  /\ p < boot.size
  /\ pc[p] = "initrp"
  /\ \E r \in {create_loop(boot, LocalLeaves(boot, p), 1,
                           [pads |-> <<>>, leaves |-> <<>>, st |-> randst[p]])} :
       /\ padata' = [padata EXCEPT ![p] = r.pads]
       /\ leaves' = [leaves EXCEPT ![p] = r.leaves]
       /\ randst' = [randst EXCEPT ![p] = r.st]
  /\ pc' = [pc EXCEPT ![p] = "create"]
  /\ UNCHANGED << sim, pfound, iremain, searched, psend, recevs, send_req,
                  sendes, precv, prebuf, loclrs, glolrs, cur, live, net, gpnum,
                  budget, eager, passno, recvi, adapt, boot, mpierr,
                  rkrun, tloop, irp >>

\* lines 408-411: the reduction of lpnum, and the return to run and sim
CreateAllreduce ==
  /\ \A p \in 0 .. boot.size - 1 : pc[p] = "create"
  /\ boot.size > 0
  /\ gpnum' = SumSeq([q \in 1 .. boot.size |-> Len(padata[q - 1])])
  /\ pc' = [p \in Ranks |->
              IF p >= boot.size THEN pc[p]
              ELSE IF 0 < finaltime THEN "stage" ELSE "done"]
  /\ UNCHANGED << sim, padata, leaves, pfound, iremain, searched, psend, recevs,
                  send_req, sendes, precv, prebuf, loclrs, glolrs, cur, live,
                  net, budget, eager, passno, recvi, adapt, boot, mpierr,
                  randst, rkrun, tloop, irp >>

\* initrp has returned, on 1 .. mpisize processes: a rank from size on stands
\* for no process and takes no step
CreateInit ==
  /\ NotCreated
  /\ rkrun = RkIdle /\ tloop = TimeIdle /\ irp = IrpIdle
  /\ boot \in {ForestOf(num, size) : num \in 1 .. MaxParticles, size \in 1 .. mpisize}

CreateNext ==
  \/ \E p \in Ranks : Create(p)
  \/ CreateAllreduce

CreateSpec == CreateInit /\ [][CreateNext]_vars

(***************************************************************************)
(* The stages of one time step of one particle, for the orders 1 to 4 and  *)
(* right-hand sides chosen stage by stage.                                 *)
(***************************************************************************)
\* the step sizes h, in twelfths
RkSteps == {12, 24}

\* a particle before a time step: wo and up hold what an earlier step left
RkParticles ==
  {[xv |-> <<30, 30>>, wo |-> wo, up |-> up] :
     wo \in {<<0, 0>>, <<18, 30>>}, up \in {<<0, 0>>, <<-12, 0>>}}

RkInit ==
  /\ Created /\ budget = 0 /\ eager = FALSE /\ tloop = TimeIdle /\ irp = IrpIdle
  /\ rkrun \in {[order |-> n, h |-> h, c |-> c, stage |-> 0, start |-> pad,
                 hist |-> << pad >>, pad |-> pad, const |-> TRUE] :
                  n \in 1 .. 4, h \in RkSteps, c \in RhsSet, pad \in RkParticles}

\* lines 1277-1302 of sim for one particle: rkstage for the stage, with the
\* right-hand side rk, then ++g->stage
RkStage ==
  /\ rkrun.order > 0
  /\ rkrun.stage < rkrun.order
  /\ \E rk \in RhsSet \cup {RhsZero} :
       rkrun' = [rkrun EXCEPT
                   !.pad = rkstage_order(rkrun.order, rkrun.pad, rk, rkrun.stage, rkrun.h),
                   !.hist = Append(@, rkstage_order(rkrun.order, rkrun.pad, rk,
                                                    rkrun.stage, rkrun.h)),
                   !.stage = @ + 1,
                   !.const = @ /\ rk = rkrun.c]
  /\ UNCHANGED << pc, sim, padata, leaves, pfound, iremain, searched, psend,
                  recevs, send_req, sendes, precv, prebuf, loclrs, glolrs, cur,
                  live, net, gpnum, budget, eager, passno, recvi, adapt, boot,
                  mpierr, randst, tloop, irp >>

RkNext == RkStage

RkSpec == RkInit /\ [][RkNext]_vars

(***************************************************************************)
(* The time loop of sim (1264-1273, 1349-1355) alone, for the values of    *)
(* --deltat and --finaltime that main accepts: main tests the levels, the  *)
(* order, num_particles and elem_particles (1486-1503) and neither deltat  *)
(* nor finaltime.  The stage loop inside a time step writes none of k, t,  *)
(* h and f.  Times are integers.                                           *)
(***************************************************************************)
TimeDeltas == {-1, 0, 1, 3, 2000}

TimeFinals == {-1, 0, 1, 2, 10, 3999, 4001}

\* run has called sim
TimeInit ==
  /\ Created /\ budget = 0 /\ eager = FALSE /\ rkrun = RkIdle
  /\ irp = IrpIdle
  /\ tloop \in {[at |-> "loop", deltat |-> dt, finaltime |-> T,
                  k |-> 0, t |-> 0, h |-> 0] :
                   dt \in TimeDeltas, T \in TimeFinals}

timevars == << pc, sim, padata, leaves, pfound, iremain, searched, psend, recevs,
               send_req, sendes, precv, prebuf, loclrs, glolrs, cur, live, net,
               gpnum, budget, eager, passno, recvi, adapt, boot, mpierr,
               randst, rkrun, irp >>

\* lines 1267-1273 and 1350-1352: one pass through the body of the loop
TimeStep ==
  /\ tloop.at = "loop"
  /\ tloop.t < tloop.finaltime
  /\ tloop.k < TimeMaxSteps
  /\ tloop' = [tloop EXCEPT
                 !.h = sim_step(tloop.deltat, tloop.finaltime, tloop.t).h,
                 !.t = sim_step(tloop.deltat, tloop.finaltime, tloop.t).f,
                 !.k = @ + 1]
  /\ UNCHANGED timevars

\* lines 1267 and 1355: the test of the loop fails and sim returns
TimeExit ==
  /\ tloop.at = "loop"
  /\ ~(tloop.t < tloop.finaltime)
  /\ tloop' = [tloop EXCEPT !.at = "returned"]
  /\ UNCHANGED timevars

TimeNext == TimeStep \/ TimeExit

\* the process keeps running
TimeLiveSpec == TimeInit /\ [][TimeNext]_vars /\ WF_vars(TimeNext)

\* the state after create of a run in which a populated leaf precedes the
\* leaf that holds elem_particles particles
SplitInit ==
  CreatedWith(SplitSeedsOfRun) /\ budget = SplitMoves /\ eager \in BOOLEAN /\ rkrun = RkIdle /\ tloop = TimeIdle /\ irp = IrpIdle

SplitSpec == SplitInit /\ [][Next]_vars

\* the state after create of a run in which one process has particles for
\* two other processes
PackInit ==
  CreatedWith(PackSeedsOfRun) /\ budget = PackMoves /\ eager \in BOOLEAN /\ rkrun = RkIdle /\ tloop = TimeIdle /\ irp = IrpIdle

PackSpec == PackInit /\ [][Next]_vars

\* the state after create, with the smaller budget of right-hand sides
LiveInit == Created /\ budget = LiveMoves /\ eager \in BOOLEAN /\ rkrun = RkIdle /\ tloop = TimeIdle /\ irp = IrpIdle

\* a process in the receive loop or in wait keeps running, and the
\* transport delivers what was posted
LiveSpec ==
  /\ LiveInit
  /\ [][Next]_vars
  /\ \A p \in Ranks : WF_vars(Recv(p)) /\ WF_vars(Wait(p))

\* the state after create of the runs in which MPI calls can return errors
FailInit == Created /\ budget = FailMoves /\ eager \in BOOLEAN /\ rkrun = RkIdle /\ tloop = TimeIdle /\ irp = IrpIdle

FailNext ==
  \/ Next
  \/ \E p \in Ranks : MpiFails(p)
  \/ \E p \in Ranks : GetCountFails(p)

\* the relocation passes with MPI calls that can return an error
FailSpec == FailInit /\ [][FailNext]_vars

(***************************************************************************)
(* Properties                                                              *)
(***************************************************************************)
Occ(s, v) == Cardinality({i \in 1 .. Len(s) : s[i] = v})

SameBag(s, t) == Len(s) = Len(t) /\ \A v \in Range(s) : Occ(s, v) = Occ(t, v)

Passes(p) == 1 .. Len(searched[p])

Least(S) == CHOOSE a \in S : \A b \in S : a <= b

QuadsOf(lv) == [i \in 1 .. Len(lv) |-> QuadOf(lv[i])]

Resolved(r, lo, hi) == {i \in 1 .. Len(r.pfound) : lo <= r.pfound[i] /\ r.pfound[i] <= hi}

IsLocalTo(r) == Resolved(r, mpisize, mpisize + Len(r.lv1) - 1)
IsRemoteTo(r) == Resolved(r, 0, mpisize - 1)
IsLostTo(r) == Resolved(r, -1, -1)

\* the reduction of pack has happened at least once
Reduced(p) == passno[p] > 1 \/ pc[p] \notin {"stage", "reduce"}

\* C1: in every relocation pass the reduced counts of the particles that pack
\* classifies as remaining, sent and lost add up to the global particle count
\* that create established.
C1_Conservation ==
  \A p \in Ranks :
    Reduced(p) => glolrs[p][1] + glolrs[p][2] + glolrs[p][3] = gpnum

\* a pass in which particles remain, are sent and are lost
C1_Witness ==
  \E p \in Ranks :
    pc[p] = "send" /\ glolrs[p][1] > 0 /\ glolrs[p][2] > 0 /\ glolrs[p][3] > 0

\* the process has completed a pass and not begun the next
PassCompleted(p) == passno[p] >= 1 /\ pc[p] \in {"stage", "done"}

\* C2: after every completed relocation pass every record of a process's
\* store has its position inside a leaf of that process: what was resolved to
\* a remote rank or lost is gone from the store, what arrived is in it.
C2_StoreInsideOwnedLeaves ==
  \A p \in Ranks :
    PassCompleted(p) =>
      /\ \A i \in 1 .. Len(padata[p]) :
           \E j \in 1 .. Len(leaves[p]) :
             InBox(QuadOf(leaves[p][j]), searched[p][passno[p]].pts[i])
      /\ Len(padata[p]) = searched[p][passno[p]].loclrs[1] + Len(prebuf[p])

\* C3: at the end of a search every found-location record is in exactly one
\* terminal state, a local leaf (at or above mpisize) that holds the position,
\* a remote rank other than the own one, or lost (-1) outside the domain, and
\* pack counts each particle in exactly the class of its record.
C3_TerminalState ==
  \A p \in Ranks : \A k \in Passes(p) :
    LET r == searched[p][k]
    IN  /\ IsLocalTo(r) \cup IsRemoteTo(r) \cup IsLostTo(r) = 1 .. Len(r.pfound)
        /\ \A i \in IsLocalTo(r) :
             InBox(QuadOf(r.lv1[r.pfound[i] - mpisize + 1]), r.pts[i])
        /\ \A i \in IsRemoteTo(r) : r.pfound[i] # p
        /\ \A i \in IsLostTo(r) : ~InBox(RootQuad, r.pts[i])
        /\ r.loclrs[1] = Cardinality(IsLocalTo(r))
        /\ r.loclrs[2] = Cardinality(IsRemoteTo(r))
        /\ r.loclrs[3] = Cardinality(IsLostTo(r))
        /\ r.loclrs[1] + r.loclrs[2] + r.loclrs[3] = Len(r.pts)

\* searches that ended with local, remote and lost records
C3_Witness ==
  /\ \E p \in Ranks : \E k \in Passes(p) : IsLocalTo(searched[p][k]) # {}
  /\ \E p \in Ranks : \E k \in Passes(p) : IsRemoteTo(searched[p][k]) # {}
  /\ \E p \in Ranks : \E k \in Passes(p) : IsLostTo(searched[p][k]) # {}

\* the matches of particle zp with local leaves, and with remote quadrants
LocalHits(r, zp) ==
  {j \in 1 .. Len(r.log) : r.log[j].zp = zp /\ r.log[j].local_num >= 0}

RemoteHits(r, zp) ==
  {j \in 1 .. Len(r.log) : r.log[j].zp = zp /\ r.log[j].local_num < 0}

\* C4: of the local leaves whose closed box holds a particle, the first the
\* search visits claims it: the record names that leaf, the later matches
\* change nothing, each leaf's premain grows by the particles it claimed, the
\* particle is in iremain once, and a search of the same positions in the
\* same mesh gives the same records.
C4_FirstLocalLeafWins ==
  \A p \in Ranks : \A k \in Passes(p) :
    LET r == searched[p][k]
    IN  /\ \A zp \in 0 .. Len(r.pts) - 1 :
             LocalHits(r, zp) # {} =>
               /\ r.pfound[zp + 1] = mpisize + r.log[Least(LocalHits(r, zp))].local_num
               /\ Occ(r.iremain, zp) = 1
               /\ \A j \in LocalHits(r, zp) \ {Least(LocalHits(r, zp))} :
                    r.log[j].after = r.log[j].before
        /\ \A i \in 1 .. Len(r.lv0) :
             r.lv1[i].premain - r.lv0[i].premain =
               Cardinality(Resolved(r, mpisize + i - 1, mpisize + i - 1))
        /\ \A k2 \in Passes(p) :
             (searched[p][k2].pts = r.pts
                /\ QuadsOf(searched[p][k2].lv0) = QuadsOf(r.lv0))
             => searched[p][k2].pfound = r.pfound

\* a particle on the face of two local leaves, searched twice in one mesh
C4_Witness ==
  \E p \in Ranks :
    /\ Len(searched[p]) = 2
    /\ searched[p][1].pts = searched[p][2].pts
    /\ QuadsOf(searched[p][1].lv0) = QuadsOf(searched[p][2].lv0)
    /\ \E zp \in 0 .. Len(searched[p][2].pts) - 1 :
         Cardinality(LocalHits(searched[p][2], zp)) >= 2

\* C5: a remote match for rank r changes a record only if the record is
\* unresolved or holds a remote rank above r; it never changes a record that
\* names a local leaf; the record of a particle with remote matches only is
\* the lowest of their ranks.
C5_LowestRemoteRank ==
  \A p \in Ranks : \A k \in Passes(p) :
    LET r == searched[p][k]
    IN  /\ \A j \in 1 .. Len(r.log) :
             r.log[j].local_num < 0 =>
               /\ r.log[j].after # r.log[j].before =>
                    /\ r.log[j].after = r.log[j].rank
                    /\ \/ r.log[j].before < 0
                       \/ r.log[j].rank < r.log[j].before /\ r.log[j].before < mpisize
               /\ r.log[j].before >= mpisize => r.log[j].after = r.log[j].before
        /\ \A zp \in 0 .. Len(r.pts) - 1 :
             (LocalHits(r, zp) = {} /\ RemoteHits(r, zp) # {}) =>
               r.pfound[zp + 1] = Least({r.log[j].rank : j \in RemoteHits(r, zp)})

\* a particle in the boxes of two remote ranks, and a remote match of a
\* particle that a local leaf has claimed before
C5_Witness ==
  /\ \E p \in Ranks : \E k \in Passes(p) :
       \E zp \in 0 .. Len(searched[p][k].pts) - 1 :
         /\ LocalHits(searched[p][k], zp) = {}
         /\ Cardinality({searched[p][k].log[j].rank :
                           j \in RemoteHits(searched[p][k], zp)}) >= 2
  /\ \E p \in Ranks : \E k \in Passes(p) :
       \E j \in 1 .. Len(searched[p][k].log) :
         /\ searched[p][k].log[j].local_num < 0
         /\ searched[p][k].log[j].before >= mpisize

\* C6: after the search of a pass iremain holds the store index of every
\* locally resolved particle once and no other index, and its length is the
\* sum of premain over the local leaves and the remain count of pack.
C6_RetainedIndexList ==
  \A p \in Ranks :
    pc[p] = "reduce" =>
      /\ \A i \in 1 .. Len(pfound[p]) :
           Occ(iremain[p], i - 1) = IF pfound[p][i] >= mpisize THEN 1 ELSE 0
      /\ \A j \in 1 .. Len(iremain[p]) :
           0 <= iremain[p][j] /\ iremain[p][j] < Len(pfound[p])
      /\ Len(iremain[p]) = loclrs[p][1]
      /\ Len(iremain[p]) =
           SumSeq([i \in 1 .. Len(leaves[p]) |-> leaves[p][i].premain])

\* the positions process p resolved to rank q in the search r, in store order
RECURSIVE PositionsFor(_, _, _)
PositionsFor(r, q, i) ==
  IF i > Len(r.pfound) THEN <<>>
  ELSE (IF r.pfound[i] = q THEN << <<r.pts[i][1], r.pts[i][2], 0>> >> ELSE <<>>)
       \o PositionsFor(r, q, i + 1)

\* what the other processes resolved to rank q in the pass q is in
Expected(q) ==
  Flatten([p \in 1 .. mpisize |->
             IF p - 1 = q THEN <<>>
             ELSE PositionsFor(searched[p - 1][passno[q]], q, 1)])

\* the loop of recv has run all its rounds, use has not begun
LoopDone(q) == pc[q] = "recv" /\ recvi[q] = Len(sendes[q])

\* C7: when a process has completed the receive loop of a pass, its arrival
\* buffer holds exactly the 3-component positions that the other processes
\* resolved to its rank in that pass; when all have, the arrivals number the
\* global sent count of the pass.
C7_ArrivalBuffer ==
  /\ \A q \in Ranks : LoopDone(q) => SameBag(prebuf[q], Expected(q))
  /\ (\A q \in Ranks : LoopDone(q)) =>
       SumSeq([q \in 1 .. mpisize |-> Len(prebuf[q - 1])]) = glolrs[0][2]

\* every process is through its receive loop, and one received from two
C7_Witness ==
  /\ \A q \in Ranks : LoopDone(q)
  /\ \E q \in Ranks : Len(sendes[q]) = 2 /\ Len(prebuf[q]) = 2

\* the senders process q has received from
Got(q) == {s \in Ranks : precv[q][s] = 1}

\* C8: in each pass a process receives one message from each sender that the
\* pattern reversal reported and no other message; the senders are distinct,
\* do not include the process, and are the processes that built a message
\* for it in that pass.
C8_OneMessagePerSender ==
  \A q \in Ranks :
    pc[q] = "recv" =>
      /\ recvi[q] = Cardinality(Got(q))
      /\ recvi[q] <= Len(sendes[q])
      /\ Got(q) \subseteq Range(sendes[q])
      /\ q \notin Range(sendes[q])
      /\ Cardinality(Range(sendes[q])) = Len(sendes[q])
      /\ Range(sendes[q]) =
           {p \in Ranks : searched[p][passno[q]].psend[q] # <<>>}
      /\ \A s \in Ranks :
           /\ Len(net[<<s, q>>]) <= 1
           /\ net[<<s, q>>] # <<>> <=> s \in Range(sendes[q]) \ Got(q)
           /\ net[<<s, q>>] # <<>> => Head(net[<<s, q>>]).pass = passno[q]

\* a process that has received from both other processes
C8_Witness ==
  \E q \in Ranks : pc[q] = "recv" /\ recvi[q] = 2 /\ Got(q) = Ranks \ {q}

\* the process is in the receive loop and has rounds left
InRecvLoop(q) == pc[q] = "recv" /\ recvi[q] < recv_rounds(q)

\* C9: every process that enters the receive loop of a pass leaves it, and
\* every process that enters wait leaves it; a process with rounds left in
\* the receive loop always has a message in flight that a reported sender
\* posted in the same pass.
C9_Progress ==
  /\ [](\A q \in Ranks :
          InRecvLoop(q) =>
            \E s \in Range(sendes[q]) \ Got(q) :
              /\ net[<<s, q>>] # <<>>
              /\ Head(net[<<s, q>>]).pass = passno[q])
  /\ \A q \in Ranks : InRecvLoop(q) ~> ~InRecvLoop(q)
  /\ \A q \in Ranks : (pc[q] = "wait") ~> (pc[q] \in {"stage", "done"})

\* a sender held in wait by a receiver that is still in its loop
C9_Witness ==
  /\ ~eager
  /\ \E p \in Ranks : \E d \in Ranks :
       pc[p] = "wait" /\ net[<<p, d>>] # <<>> /\ InRecvLoop(d)

\* what must outlive the sends: the messages, the destination list, the
\* requests and the pool of the entries
SendSide == {"psend", "recevs", "send_req", "psmem"}

\* the process has posted its sends and not completed wait
Outstanding(p) == pc[p] \in {"notify", "recv", "wait"}

\* C10: from the posting of the sends to the completion of wait, the
\* messages, the destination list, the request array and the entry pool are
\* allocated and are as pack and send built them; use does not touch them.
C10_SendSideKept ==
  \A p \in Ranks :
    Outstanding(p) =>
      /\ SendSide \subseteq live[p]
      /\ psend[p] = searched[p][passno[p]].psend
      /\ recevs[p] = searched[p][passno[p]].recevs
      /\ send_req[p] = recevs[p]

\* use has adapted the mesh of a process whose message is not yet received
C10_Witness ==
  \E p \in Ranks : \E d \in Ranks :
    pc[p] = "wait" /\ cur[p].lfound >= 0 /\ net[<<p, d>>] # <<>>

\* the process posts a message in this step
Posts(p) == \E d \in Ranks : Len(net'[<<p, d>>]) > Len(net[<<p, d>>])

\* the process takes a message in this step
Takes(p) == \E s \in Ranks : Len(net'[<<s, p>>]) < Len(net[<<s, p>>])

\* C11: within every Runge-Kutta stage each process runs the phases in the
\* order integrate, locate, pack, send, discover, receive, adapt, wait: the
\* search works on the integrated positions and pack has built the buffers
\* before a send is posted, the non-blocking sends are posted before the
\* pattern discovery, a message is taken only after the discovery, the
\* adaptation comes after the last round of the receive loop, and the wait,
\* which frees what is left, comes last.
C11_PhaseOrder ==
  [][\A p \in Ranks :
       /\ passno'[p] # passno[p] =>
            /\ live[p] = {}
            /\ searched'[p][passno'[p]].pts = Lookfor(padata'[p], sim[p].stage)
            /\ {"pfound", "iremain", "psend", "recevs"} \subseteq live'[p]
       /\ Posts(p) =>
            /\ {"psend", "recevs"} \subseteq live[p]
            /\ "sendes" \notin live[p] /\ "sendes" \notin live'[p]
       /\ ("sendes" \in live'[p] /\ "sendes" \notin live[p]) =>
            /\ "send_req" \in live[p]
            /\ \A d \in Range(recevs[p]) : net[<<p, d>>] # <<>>
       /\ Takes(p) => "sendes" \in live[p]
       /\ (adapt'[p] # adapt[p] \/ cur'[p] # cur[p]) =>
            /\ "sendes" \in live[p]
            /\ recvi[p] = Len(sendes[p])
            /\ Len(prebuf[p]) = SumSeq([k \in 1 .. Len(sendes[p]) |->
                 Len(searched[sendes[p][k]][passno[p]].psend[p])])
       /\ (live'[p] = {} /\ live[p] # {}) =>
            /\ "sendes" \notin live[p]
            /\ "send_req" \in live[p]
            /\ "prebuf" \in live[p]
    ]_vars

\* a process that has sent and received in a pass and is now in wait
C11_Witness ==
  \E p \in Ranks : pc[p] = "wait" /\ send_req[p] # <<>> /\ Len(prebuf[p]) > 0

\* C11 as the specification words it: pattern discovery comes before the
\* non-blocking sends are posted, so a process whose sends are posted has
\* its discovered senders at hand or has adapted already.
C11_DiscoverBeforeSend ==
  \A p \in Ranks :
    "send_req" \in live[p] => pc[p] \in {"recv", "wait", "undefined"}


\* use has run its coarsen pass in the current relocation pass of p
CoarsenDone(p) ==
  pc[p] \in {"wait", "undefined"} /\ recvi[p] = Len(sendes[p])

\* C12: after every coarsen pass, whatever sibling groups were merged or
\* left alone, the running offset cursor prevlp equals the size of the
\* particle store.
C12_CoarsenOffsetCursor ==
  \A p \in Ranks : CoarsenDone(p) => cur[p].c_prevlp = Len(padata[p])

\* a coarsen pass that merged a sibling group on a process with particles
C12_Witness ==
  \E p \in Ranks :
    /\ pc[p] = "wait" /\ Len(padata[p]) > 0
    /\ Len(adapt[p].co) < Len(adapt[p].sl)

\* C13: after every coarsen pass, including passes in which a sibling group
\* holding retained particles is merged, the running retained-index cursor
\* irindex equals the size of the retained-index list.
C13_CoarsenRetainedCursor ==
  \A p \in Ranks : CoarsenDone(p) => cur[p].c_irindex = Len(iremain[p])


\* use has run its refine pass to the end in the current relocation pass
RefineDone(p) == pc[p] = "wait"

\* C14: after every refine pass, whatever leaves were split, the running
\* offset cursor prevlp equals the size of the particle store and the
\* running retained-index cursor irindex equals the size of the
\* retained-index list; at each split the window between the saved and the
\* current cursor has exactly the parent's expected-to-remain count.
C14_RefineCursors ==
  \A p \in Ranks :
    /\ RefineDone(p) =>
         /\ cur[p].prevlp = Len(padata[p])
         /\ cur[p].irindex = Len(iremain[p])
    /\ CoarsenDone(p) =>
         \A k \in 1 .. Len(cur[p].splits) :
           cur[p].splits[k].irindex - cur[p].splits[k].ir2
             = cur[p].splits[k].parent.premain


\* where the list segment of the j-th leaf of lv starts in the retained-index list
SegStart(lv, j) == SumSeq([k \in 1 .. j - 1 |-> lv[k].premain])

\* the j-th leaf of lv is the first in order whose box holds x
InLeaf(lv, j, x) ==
  /\ InBox(QuadOf(lv[j]), x)
  /\ \A k \in 1 .. j - 1 : ~InBox(QuadOf(lv[k]), x)

\* the store indices the search of the current pass of p resolved locally
Retained(p) ==
  {i \in 0 .. Len(pfound[p]) - 1 : pfound[p][i + 1] >= mpisize}

\* C15: after the refine pass the retained-index list is a permutation of
\* its contents before the pass, and for every local leaf taken in order
\* the list segment that starts at the sum of the expected-to-remain
\* counters of the preceding leaves and has this leaf's counter as length
\* contains exactly the store indices of the retained particles whose
\* positions lie in that leaf.
C15_RetainedSegments ==
  \A p \in Ranks :
    RefineDone(p) =>
      /\ SameBag(iremain[p], searched[p][passno[p]].iremain)
      /\ \A j \in 1 .. Len(leaves[p]) :
           /\ SegStart(leaves[p], j) + leaves[p][j].premain <= Len(iremain[p])
           /\ { iremain[p][n] : n \in SegStart(leaves[p], j) + 1 ..
                                     SegStart(leaves[p], j) + leaves[p][j].premain }
                = { i \in Retained(p) :
                      InLeaf(leaves[p], j, searched[p][passno[p]].pts[i + 1]) }

\* the sibling group that starts at the i-th leaf of lv
Family(lv, i) == SubSeq(lv, i, i + P4EST_CHILDREN - 1)

\* the leaves of lv whose quadrant is the parent of the group at i
ParentLeaves(lv, fam) ==
  {k \in 1 .. Len(lv) : QuadOf(lv[k]) = Parent(QuadOf(fam[1]))}

\* the sums of line 933-936 over the stored counters of the siblings
FamilyRemain(fam) == SumSeq([k \in 1 .. P4EST_CHILDREN |-> fam[k].premain])
FamilyReceive(fam) == SumSeq([k \in 1 .. P4EST_CHILDREN |-> fam[k].preceive])

\* C16: a complete sibling group of the mesh handed to the coarsen pass is
\* merged if and only if twice the sum over the siblings of the retained
\* and incoming counters is below the target; the parent then has the
\* cumulative offset of the last sibling, the siblings' retained sum as
\* retained counter and -1 as incoming counter.
C16_CoarsenRule ==
  \A p \in Ranks :
    \A i \in 1 .. Len(adapt[p].sl) :
      IsFamily(adapt[p].sl, i) =>
        LET fam == Family(adapt[p].sl, i)
            par == ParentLeaves(adapt[p].co, fam)
        IN  /\ (par # {})
                 <=> 2 * (FamilyRemain(fam) + FamilyReceive(fam)) < elem_particles
            /\ \A k \in par :
                 /\ adapt[p].co[k].lpend = fam[P4EST_CHILDREN].lpend
                 /\ adapt[p].co[k].premain = FamilyRemain(fam)
                 /\ adapt[p].co[k].preceive = -1

\* a group with a retained particle was merged, another group was kept
C16_Witness ==
  /\ \E i \in 1 .. Len(adapt[2].sl) :
       /\ IsFamily(adapt[2].sl, i)
       /\ FamilyRemain(Family(adapt[2].sl, i)) = 1
       /\ ParentLeaves(adapt[2].co, Family(adapt[2].sl, i)) # {}
  /\ \E i \in 1 .. Len(adapt[0].sl) :
       /\ IsFamily(adapt[0].sl, i)
       /\ ParentLeaves(adapt[0].co, Family(adapt[0].sl, i)) = {}

\* the splits of the refine pass of p: the calls of use_replace with one
\* outgoing quadrant
Splits(p) == cur[p].splits

\* the leaf of the mesh handed to the refine pass was split
WasSplit(p, l) == \E k \in 1 .. Len(Splits(p)) : Splits(p)[k].parent = l

\* the parent's retained indices: the window of use_refine in the list
ParentWindow(sp) == {sp.before[n] : n \in sp.ir2 + 1 .. sp.irindex}

\* the number of the child on whose side of the parent's midpoint x lies
ChildOf(parent, x) ==
  LET b == loopquad(QuadOf(parent))
      wx == IF LowerSide(x[1], b.lxyz[1], b.dxyz[1]) THEN 0 ELSE 1
      wy == IF LowerSide(x[2], b.lxyz[2], b.dxyz[2]) THEN 0 ELSE 1
  IN  2 * wy + wx

\* the list segment of the leaf with quadrant q after the refine pass
SegmentOf(p, q) ==
  LET j == CHOOSE j \in 1 .. Len(leaves[p]) : QuadOf(leaves[p][j]) = q
  IN  {iremain[p][n] : n \in (SegStart(leaves[p], j) + 1 ..
                              SegStart(leaves[p], j) + leaves[p][j].premain)
                             \cap DOMAIN iremain[p]}

\* the split decision of the refine pass
SplitDecision(p) ==
  \A i \in 1 .. Len(adapt[p].co) :
    adapt[p].co[i].level < maxlevel =>
      (WasSplit(p, adapt[p].co[i])
         <=> adapt[p].co[i].premain + adapt[p].co[i].preceive > elem_particles)

\* the children's retained counters sum to the parent's
SplitCounts(p) ==
  \A k \in 1 .. Len(Splits(p)) :
    SumSeq([c \in 1 .. P4EST_CHILDREN |-> Splits(p)[k].children[c].premain])
      = Splits(p)[k].parent.premain

\* every child holds the parent's retained indices on its side
SplitSides(p) ==
  \A k \in 1 .. Len(Splits(p)) :
    \A c \in 1 .. P4EST_CHILDREN :
      SegmentOf(p, QuadOf(Splits(p)[k].children[c]))
        = {i \in ParentWindow(Splits(p)[k]) :
             ChildOf(Splits(p)[k].parent,
                     searched[p][passno[p]].pts[i + 1]) = c - 1}

\* C17: a leaf below the maximum depth is split in the refine pass if and
\* only if its retained plus incoming counter exceeds the target; after the
\* split child number 2*wy + wx holds exactly the parent's retained indices
\* whose position lies on side wy, wx of the parent's midpoint, a coordinate
\* equal to the midpoint going to the lower child, and the children's
\* retained counters sum to the parent's.
C17_SplitRule ==
  \A p \in Ranks :
    RefineDone(p) => SplitDecision(p) /\ SplitCounts(p) /\ SplitSides(p)

\* the store slots the search of pass k of p found in no leaf
LostIn(p, k) ==
  {z \in DOMAIN searched[p][k].pfound : searched[p][k].pfound[z] < 0}

\* the store slots pass j of p integrates (lines 1283-1305) and hands to
\* p4est_search_all (line 1320)
IntegratedIn(p, j) ==
  {z \in DOMAIN searched[p][j].pts : z <= IntegrateCount(searched[p][j].lv0, 0)}
SearchedIn(p, j) == DOMAIN searched[p][j].pts

\* the store slots pack counts as remaining or sent in pass j of p
CountedIn(p, j) ==
  {z \in DOMAIN searched[p][j].pfound : searched[p][j].pfound[z] >= 0}

\* C18: a particle found in no leaf in some pass is in every later pass
\* neither integrated nor searched nor counted as remaining or sent.
C18_LostExcluded ==
  \A p \in Ranks :
    \A k \in 1 .. Len(searched[p]) :
      \A j \in k + 1 .. Len(searched[p]) :
        \A z \in LostIn(p, k) :
          /\ z \notin IntegratedIn(p, j)
          /\ z \notin SearchedIn(p, j)
          /\ z \notin CountedIn(p, j)

\* the record of the search and pack of the current pass of p
ThisPass(p) == searched[p][passno[p]]

\* p is between pack and the end of wait of a relocation pass
InPass(p) == passno[p] >= 1 /\ pc[p] \in {"reduce", "send", "notify", "recv", "wait"}

\* the store slots pack puts into the message for rank d
SentTo(p, d) == {z \in DOMAIN pfound[p] : pfound[p][z] = d}

\* the sources whose message p has received in this pass
Received(p) == {s \in Ranks : precv[p][s] = 1}

\* C19: the found-location records, the retained-index list, the outgoing
\* and incoming message buffers and both routing tables are created empty
\* at the start of each relocation pass and destroyed by its end: between
\* passes none of them exists, and within a pass each holds only what this
\* pass has written to it.
C19_BuffersPerPass ==
  \A p \in Ranks :
    /\ pc[p] \in {"stage", "done"} => live[p] = {}
    /\ InPass(p) =>
         /\ Len(pfound[p]) = Len(padata[p])
         /\ \A z \in DOMAIN pfound[p] :
              \/ pfound[p][z] = -1
              \/ \E e \in Range(ThisPass(p).log) :
                   e.zp = z - 1 /\ e.after = pfound[p][z]
         /\ \A d \in Ranks : Len(psend[p][d]) = Cardinality(SentTo(p, d))
         /\ Range(recevs[p]) = {d \in Ranks : SentTo(p, d) # {}}
    /\ (InPass(p) /\ pc[p] # "wait") =>
         /\ Len(iremain[p]) = Cardinality(Retained(p))
         /\ Range(iremain[p]) = Retained(p)
    /\ (InPass(p) /\ "sendes" \in live[p]) =>
         Range(sendes[p]) = {s \in Ranks : p \in Range(searched[s][passno[p]].recevs)}
    /\ (InPass(p) /\ "prebuf" \in live[p]) =>
         /\ Received(p) \subseteq {s \in Ranks : p \in Range(searched[s][passno[p]].recevs)}
         /\ Len(prebuf[p]) = SumSeq([s \in 1 .. mpisize |->
              IF s - 1 \in Received(p)
              THEN Len(searched[s - 1][passno[p]].psend[p]) ELSE 0])

\* a process that received a message in its first pass is in its second
\* pass with an incoming buffer that holds nothing
C19_Witness ==
  \E p \in Ranks :
    /\ passno[p] = 2 /\ pc[p] = "wait" /\ prebuf[p] = <<>>
    /\ \E s \in Ranks : searched[s][1].psend[p] # <<>>

\* the expected particle counts of the leaves of the bootstrap's mesh
BootCounts ==
  [i \in 1 .. Len(boot.mesh) |-> expected_particles(boot.mesh[i].d, boot)]

\* C20: when the bootstrap returns, every leaf of the mesh on every process
\* has an expected particle count at or below the particles-per-leaf
\* threshold, or the bootstrap has used up its maxlevel - minlevel cycles.
C20_BootstrapThresholdOrBudget ==
  boot.phase = "returned" =>
    \/ \A i \in 1 .. Len(boot.mesh) : BootCounts[i] <= elem_particles
    \/ boot.cycle >= max_cycles

\* the bootstrap returned after a cycle that refined, with every leaf
\* within the threshold
C20_Witness ==
  /\ boot.phase = "returned"
  /\ boot.cycle = max_cycles
  /\ Len(boot.mesh) > Len(InitQuads)
  /\ \A i \in 1 .. Len(boot.mesh) : BootCounts[i] <= elem_particles

\* C20 as the specification words it: when the bootstrap returns, every
\* leaf has an expected particle count at or below the threshold.
C20_BootstrapThreshold ==
  boot.phase = "returned" =>
    \A i \in 1 .. Len(boot.mesh) : BootCounts[i] <= elem_particles

\* the reduction of a cycle of initrp happens in this step
BootReduces == boot.phase = "integrate" /\ boot'.phase # "integrate"

\* C21: the loop of the bootstrap terminates on every process after at most
\* maxlevel - minlevel refine-and-repartition cycles, and it stops without
\* refining in the first cycle in which the global maximum expected leaf
\* count is at or below the threshold.
C21_BootTerminates ==
  /\ <>(boot.phase = "returned")
  /\ [](boot.cycle <= max_cycles)
  /\ [][BootReduces =>
          /\ boot'.ilem <= elem_particles => boot'.phase = "returned"
          /\ boot'.phase = "refine" =>
               boot'.ilem > elem_particles /\ boot.cycle < max_cycles]_vars

\* the bootstrap has returned on its budget after a cycle that refined
C21_Witness ==
  /\ boot.phase = "returned"
  /\ boot.cycle = max_cycles
  /\ boot.ilem > elem_particles


\* all processes have run the refinement of the cycle
BootRefined == boot.phase = "refine" /\ boot.done = Ranks

\* C22: in every cycle of the bootstrap that reaches the refine step the
\* global number of quadrants after the refinement is strictly greater than
\* before it, and the not-reached abort of initrp is never executed
C22_RefineAdds ==
  /\ BootRefined => Len(boot.mesh) > boot.old_gnum
  /\ boot.phase # "aborted"

\* a cycle has refined on all processes and the mesh has grown
C22_Witness == BootRefined /\ Len(boot.mesh) > boot.old_gnum /\ boot.old_gnum = Len(InitQuads)

\* C23: a process to which a call of the transport (reduction, send, probe,
\* size query, receive, wait) has returned an error is aborted: the pass
\* does not go on after the error
C23_FailureAborts ==
  \A p \in Ranks : mpierr[p] # {} => pc[p] = "aborted"

\* the same for the calls that SC_CHECK_MPI follows
C23_CheckedFailureAborts ==
  \A p \in Ranks : mpierr[p] \cap CheckedCalls_all # {} => pc[p] = "aborted"

\* process p has seeded its leaves and no relocation pass has changed them
Seeded(p) == p < boot.size /\ pc[p] # "initrp" /\ passno[p] = 0

\* the number of particles that create gives to the local leaf i of p
SeedCount(p, i) == expected_particles(LocalLeaves(boot, p)[i].d, boot)

\* C24: after seeding, the cumulative offset stored in each leaf is the sum
\* of the particle counts of the leaf and of the local leaves before it; the
\* offsets do not decrease, the offset of the last leaf is the size of the
\* store, the two transient counters of each leaf are zero, and after the
\* reduction the global count is the sum of the sizes of the local stores
C24_SeededOffsets ==
  /\ \A p \in Ranks : Seeded(p) =>
       /\ Len(leaves[p]) = Len(LocalLeaves(boot, p))
       /\ \A i \in 1 .. Len(leaves[p]) :
            /\ leaves[p][i].lpend = SumSeq([j \in 1 .. i |-> SeedCount(p, j)])
            /\ i > 1 => leaves[p][i - 1].lpend <= leaves[p][i].lpend
            /\ leaves[p][i].premain = 0 /\ leaves[p][i].preceive = 0
       /\ leaves[p] # <<>> => leaves[p][Len(leaves[p])].lpend = Len(padata[p])
       /\ leaves[p] = <<>> => padata[p] = <<>>
  /\ (\E p \in Ranks : pc[p] = "stage") =>
       gpnum = SumSeq([q \in 1 .. boot.size |-> Len(padata[q - 1])])

\* create has returned everywhere, with particles on two processes and a
\* process whose second populated leaf follows a populated one
C24_Witness ==
  /\ \A p \in 0 .. boot.size - 1 : pc[p] = "stage"
  /\ Cardinality({p \in Ranks : padata[p] # <<>>}) >= 2
  /\ \E p \in Ranks : \E i \in 2 .. Len(leaves[p]) :
       0 < leaves[p][i - 1].lpend /\ leaves[p][i - 1].lpend < leaves[p][i].lpend

\* the positions that a leaf q with n particles gets, whoever seeds it
SeededPositions(q, n) ==
  [j \in 1 .. n |-> create_particle(q, srandquad(loopquad(q).lxyz), j)]

\* the particles of the local leaf i of p in its store
SeededIn(p, i) ==
  SubSeq(padata[p], (IF i = 1 THEN 0 ELSE leaves[p][i - 1].lpend) + 1,
         leaves[p][i].lpend)

\* C25: the initial positions in a leaf depend only on the geometry of the
\* leaf (its lower corner, ten bits per axis, is the seed) and on its
\* particle count, not on the process that owns it or on the leaves seeded
\* before it: runs on different numbers of processes give the same positions
C25_SeedByLeaf ==
  \A p \in Ranks : Seeded(p) =>
    \A i \in 1 .. Len(leaves[p]) :
      SeededIn(p, i) = SeededPositions(QuadOf(leaves[p][i]), SeedCount(p, i))

\* a process other than the first has seeded a populated leaf after another
\* populated leaf
C25_Witness ==
  \E p \in Ranks \ {0} : Seeded(p) /\
    \E i \in 2 .. Len(leaves[p]) :
      0 < leaves[p][i - 1].lpend /\ leaves[p][i - 1].lpend < leaves[p][i].lpend

RECURSIVE TimeAfter(_)
\* the simulation time after k time steps
TimeAfter(k) == IF k = 0 THEN 0 ELSE StepFrom(k - 1, TimeAfter(k - 1)).f

\* process p is between the stage it has computed and the end of its pass
InRelocation(p) == pc[p] \notin {"stage", "done"}

\* C26: a time step runs the stages 0 .. order - 1 in this order, each
\* followed by one relocation pass, also the last one; the step counter and
\* the time advance once per time step, after the pass of the last stage
C26_StagesAndPasses ==
  \A p \in Ranks :
    /\ sim[p].stage \in 0 .. order - 1
    /\ passno[p] = order * sim[p].k + sim[p].stage
                     + (IF InRelocation(p) THEN 1 ELSE 0)
    /\ sim[p].t = TimeAfter(sim[p].k)
    /\ pc[p] = "done" <=> ~InRelocation(p) /\ sim[p].t >= finaltime

\* a process has finished a time step of order stages and passes
C26_Witness ==
  \E p \in Ranks : pc[p] = "done" /\ sim[p].k = 1 /\ passno[p] = order

\* the stages of the time step of rkrun are over
RkDone == rkrun.order > 0 /\ rkrun.stage = rkrun.order

C30_StageFrame ==
  rkrun.order > 0 =>
    \A s \in 0 .. rkrun.stage - 1 :
      IF s + 1 < rkrun.order
      THEN rkrun.hist[s + 2].xv = rkrun.hist[s + 1].xv
      ELSE rkrun.hist[s + 2].wo = rkrun.hist[s + 1].wo

\* a time step of order 4 whose second stage has written wo and up and whose
\* last stage has changed xv
C30_Witness ==
  /\ RkDone /\ rkrun.order = 4
  /\ rkrun.hist[3].wo # rkrun.hist[2].wo /\ rkrun.hist[3].up # rkrun.hist[2].up
  /\ rkrun.hist[5].xv # rkrun.hist[4].xv

\* the store slots of the pass r that resolved to the rank d, in store order
SlotsTo(r, d) ==
  SelectSeq([i \in 1 .. Len(r.pfound) |-> i], LAMBDA i : r.pfound[i] = d)

\* C28: pack makes one buffer for each remote rank that a particle resolved
\* to, none for the own rank and none that is empty; the buffer for a rank
\* holds, in store order, the three coordinates of each particle resolved to
\* that rank and nothing else; there are fewer destinations than processes
C28_PackBuffers ==
  \A p \in Ranks : \A k \in Passes(p) :
    LET r == searched[p][k]
    IN  /\ Range(r.recevs) = {r.pfound[i] : i \in IsRemoteTo(r)}
        /\ Cardinality(Range(r.recevs)) = Len(r.recevs)
        /\ p \notin Range(r.recevs)
        /\ Len(r.recevs) < mpisize
        /\ \A d \in Ranks :
             /\ d \in Range(r.recevs) <=> r.psend[d] # <<>>
             /\ r.psend[d] = [j \in 1 .. Len(SlotsTo(r, d)) |->
                                << r.pts[SlotsTo(r, d)[j]][1],
                                   r.pts[SlotsTo(r, d)[j]][2], 0 >>]

\* a pass with two buffers, one of them with two particles that are not
\* neighbours in the store
C28_Witness ==
  \E p \in Ranks : \E k \in Passes(p) :
    /\ Len(searched[p][k].recevs) = 2
    /\ \E d \in Ranks :
         /\ Len(SlotsTo(searched[p][k], d)) = 2
         /\ SlotsTo(searched[p][k], d)[2] > SlotsTo(searched[p][k], d)[1] + 1

\* the position of store slot z of p that counts in the pass after the stage
\* sim[p].stage: wo while stages remain, xv after the last stage
StagePosition(p, z) ==
  IF sim[p].stage + 1 < order THEN padata[p][z].wo ELSE padata[p][z].xv

\* the parent's retained indices that a split of the pass puts to child c
SplitTo(p, sp, c) ==
  {n \in sp.ir2 + 1 .. sp.irindex :
     ChildOf(sp.parent, StagePosition(p, sp.before[n] + 1)) = c - 1}

\* C29: in the pass after stage s of order n the locator, the packer and
\* the split of the refine pass read the same position of a particle: the
\* evaluation point wo if s + 1 < n and the true position xv if s + 1 = n
C29_SamePosition ==
  \A p \in Ranks :
    InPass(p) =>
      /\ ThisPass(p).pts = [z \in 1 .. Len(padata[p]) |-> StagePosition(p, z)]
      /\ \A d \in Ranks :
           ThisPass(p).psend[d]
             = [j \in 1 .. Len(SlotsTo(ThisPass(p), d)) |->
                  << StagePosition(p, SlotsTo(ThisPass(p), d)[j])[1],
                     StagePosition(p, SlotsTo(ThisPass(p), d)[j])[2], 0 >>]
      /\ RefineDone(p) =>
           \A k \in 1 .. Len(Splits(p)) :
             ~Splits(p)[k].ub =>
               \A c \in 1 .. P4EST_CHILDREN :
                 Splits(p)[k].children[c].premain
                   = Cardinality(SplitTo(p, Splits(p)[k], c))

\* in the pass after stage 0 a process has split a leaf with a particle whose
\* wo and xv lie in different children, and a process has packed a particle
\* whose wo is not its xv
C29_Witness ==
  /\ \E p \in Ranks :
       /\ InPass(p) /\ RefineDone(p) /\ sim[p].stage = 0
       /\ \E k \in 1 .. Len(Splits(p)) :
            /\ ~Splits(p)[k].ub
            /\ \E n \in Splits(p)[k].ir2 + 1 .. Splits(p)[k].irindex :
                 ChildOf(Splits(p)[k].parent, padata[p][Splits(p)[k].before[n] + 1].wo)
                   # ChildOf(Splits(p)[k].parent, padata[p][Splits(p)[k].before[n] + 1].xv)
  /\ \E q \in Ranks : \E d \in Ranks :
       /\ InPass(q) /\ sim[q].stage = 0
       /\ \E j \in 1 .. Len(SlotsTo(ThisPass(q), d)) :
            padata[q][SlotsTo(ThisPass(q), d)[j]].wo
              # padata[q][SlotsTo(ThisPass(q), d)[j]].xv

\* the local leaves that the search of the pass r visited for certain: a
\* particle of the pass lay in their box
VisitedLeaves(r) ==
  {i \in 1 .. Len(r.lv0) :
     \E j \in 1 .. Len(r.log) : r.log[j].local_num = i - 1}

\* C31: in every relocation pass, the first and every later one, a local
\* leaf that the locator visits has its expected-to-remain and its
\* expected-to-arrive counter at zero before a particle of the pass is
\* counted in it
C31_CountersZeroAtVisit ==
  \A p \in Ranks : \A k \in Passes(p) :
    \A i \in VisitedLeaves(searched[p][k]) :
      /\ searched[p][k].lv0[i].premain = 0
      /\ searched[p][k].lv0[i].preceive = 0

\* the same for the first pass of a run, which finds the counters as create
\* has set them
C31_CountersZeroFirstPass ==
  \A p \in Ranks : Passes(p) # {} =>
    \A i \in VisitedLeaves(searched[p][1]) :
      /\ searched[p][1].lv0[i].premain = 0
      /\ searched[p][1].lv0[i].preceive = 0

\* the leaves of lv whose closed box holds x
LeavesWith(lv, x) == {i \in 1 .. Len(lv) : InBox(QuadOf(lv[i]), x)}

\* the positions sent to p in its pass that the local search counted in the
\* i-th leaf of lv: the first leaf in the order of the search that holds them
ArrivalsIn(p, lv, i) ==
  {j \in 1 .. Len(Expected(p)) : InLeaf(lv, i, Expected(p)[j])}

\* C32: in use every received position is counted in the expected-to-arrive
\* counter of exactly one local leaf: the local search finds as many
\* positions as the arrival buffer holds, and a position on a face shared by
\* several local leaves is counted only in the first leaf visited
C32_ArrivalsCountedOnce ==
  \A p \in Ranks :
    CoarsenDone(p) =>
      /\ cur[p].lfound = Len(prebuf[p])
      /\ \A j \in 1 .. Len(prebuf[p]) : prebuf[p][j][1] = FoundMark
      /\ Len(adapt[p].sl) = Len(ThisPass(p).lv1)
      /\ \A i \in 1 .. Len(adapt[p].sl) :
           adapt[p].sl[i].preceive - ThisPass(p).lv1[i].preceive
             = Cardinality(ArrivalsIn(p, ThisPass(p).lv1, i))
      /\ SumSeq([i \in 1 .. Len(adapt[p].sl) |->
                   adapt[p].sl[i].preceive - ThisPass(p).lv1[i].preceive])
           = Len(prebuf[p])

\* a process has adapted with an arrival on the face of two of its leaves
C32_Witness ==
  \E p \in Ranks :
    /\ pc[p] = "wait"
    /\ \E j \in 1 .. Len(Expected(p)) :
         Cardinality(LeavesWith(ThisPass(p).lv1, Expected(p)[j])) >= 2

\* the entries of the retained-index list outside the window of the split sp
OutsideWindow(sp) ==
  {n \in 1 .. Len(sp.before) : n <= sp.ir2 \/ n > sp.irindex}

\* C33: the split of a leaf in the refine pass changes only the leaf's own
\* segment of the retained-index list: the list keeps its length and the
\* entries that belong to the other leaves are as they were before the split
C33_SplitKeepsOtherSegments ==
  \A p \in Ranks :
    \A k \in 1 .. Len(Splits(p)) :
      ~Splits(p)[k].ub =>
        /\ Len(Splits(p)[k].after) = Len(Splits(p)[k].before)
        /\ \A n \in OutsideWindow(Splits(p)[k]) :
             Splits(p)[k].after[n] = Splits(p)[k].before[n]

\* the same for the splits whose window starts at the beginning of the list
C33_SplitAtListStart ==
  \A p \in Ranks :
    \A k \in 1 .. Len(Splits(p)) :
      (~Splits(p)[k].ub /\ Splits(p)[k].ir2 = 0) =>
        /\ Len(Splits(p)[k].after) = Len(Splits(p)[k].before)
        /\ \A n \in OutsideWindow(Splits(p)[k]) :
             Splits(p)[k].after[n] = Splits(p)[k].before[n]

\* no step of the adaptation moves or changes a particle record
C33_StoreKept ==
  [][\A p \in Ranks : cur'[p] # cur[p] => padata'[p] = padata[p]]_vars

\* the message that process q takes in this step
Taken(q) ==
  {Head(net[<<s, q>>]) : s \in {r \in Ranks : Len(net'[<<r, q>>]) < Len(net[<<r, q>>])}}

\* C34: a message posted in a relocation pass is never matched by a probe or
\* receive of an earlier pass, although every pass uses the same tag and
\* receives from any source: the reduction of pack separates the passes, so
\* a process posts the sends of a pass only when every process has left the
\* receive loop of the pass before and has begun this pass
C34_PassesSeparated ==
  /\ [](\A s \in Ranks : \A q \in Ranks :
          \A n \in 1 .. Len(net[<<s, q>>]) : net[<<s, q>>][n].pass = passno[q])
  /\ [][\A p \in Ranks :
          /\ Posts(p) =>
               \A q \in Ranks :
                 passno[q] = passno[p] /\ pc[q] \in {"send", "notify"}
          /\ \A m \in Taken(p) : m.pass = passno[p]]_vars

\* a process that received a message in its first pass is in the receive
\* loop of its second pass with a message in flight to it
C34_Witness ==
  \E q \in Ranks :
    /\ pc[q] = "recv" /\ passno[q] = 2
    /\ \E s \in Ranks : net[<<s, q>>] # <<>>
    /\ \E s \in Ranks : searched[s][1].psend[q] # <<>>

\* the orders in which a search can visit the four children of a quadrant
ChildOrders ==
  {o \in [1 .. P4EST_CHILDREN -> 1 .. P4EST_CHILDREN] :
     \A i \in 1 .. P4EST_CHILDREN : \E j \in 1 .. P4EST_CHILDREN : o[j] = i}

RECURSIVE SearchInOrder(_, _, _, _, _, _)
\* the recursion of p4est_search_all with the children visited in the order o
SearchInOrder(p, q, pts, actives, s, o) ==
  IF actives = <<>> THEN s
  ELSE LET pfirst == pfirstOf(q)
           plast == plastOf(q)
           local_num == IF pfirst = p /\ plast = p
                        THEN LeafIndex(s.leaves, q) ELSE -1
           r == PointLoop(p, q, pfirst, plast, local_num, pts, actives, 1, s, <<>>)
           ch == Children(q)
       IN  IF r.chact = <<>> THEN r.s
           ELSE SearchInOrder(p, ch[o[4]], pts, r.chact,
                  SearchInOrder(p, ch[o[3]], pts, r.chact,
                    SearchInOrder(p, ch[o[2]], pts, r.chact,
                      SearchInOrder(p, ch[o[1]], pts, r.chact, r.s, o), o), o), o)

\* the records of a search of the positions pts in the leaves lv, in order o
FoundInOrder(p, pts, lv, o) ==
  SearchInOrder(p, RootQuad, pts, [i \in 1 .. Len(pts) |-> i - 1],
    [pfound |-> [i \in 1 .. Len(pts) |-> -1], iremain |-> <<>>,
     leaves |-> lv, log |-> <<>>], o).pfound

\* the class of a record: mpisize for a local leaf, the rank, or -1 for lost
ClassOf(pori) == IF pori >= mpisize THEN mpisize ELSE pori

\* the quadrants of the finest level
FinestQuads == Range(UniformQuads(RootQuad, maxlevel))

\* the processes other than p that own a quadrant whose closed box holds x
RemoteOwners(p, x) ==
  {pfirstOf(c) : c \in {d \in FinestQuads : InBox(d, x)}} \ {p}

\* the class that the position x has for process p with the leaves lv
ClassByPlace(p, lv, x) ==
  IF LeavesWith(lv, x) # {} THEN mpisize
  ELSE IF RemoteOwners(p, x) # {} THEN Least(RemoteOwners(p, x))
  ELSE -1

\* the search of the current pass of p has ended and every other process
\* has come as far as it gets while p is held by the reduction of pack
SearchDone(p) ==
  pc[p] = "reduce" /\ \A q \in Ranks : pc[q] \in {"reduce", "undefined"}

\* C35: the final class of a particle in a search does not depend on the
\* order in which the search visits the quadrants: it is local if a local
\* leaf holds the position, also when a remote match came first, otherwise
\* the lowest rank among the remote owners whose quadrant holds it,
\* otherwise lost
C35_ClassByPlaceNotOrder ==
  \A p \in Ranks :
    SearchDone(p) =>
      /\ \A z \in 1 .. Len(pfound[p]) :
           ClassOf(pfound[p][z])
             = ClassByPlace(p, ThisPass(p).lv0, ThisPass(p).pts[z])
      /\ \A o \in ChildOrders :
           LET f == FoundInOrder(p, ThisPass(p).pts, ThisPass(p).lv0, o)
           IN  \A z \in 1 .. Len(pfound[p]) : ClassOf(f[z]) = ClassOf(pfound[p][z])

\* a search has ended with a particle in the quadrants of two remote owners, a
\* particle on the face of a local leaf and a remote quadrant, and a lost one
C35_Witness ==
  \E p \in Ranks :
    /\ SearchDone(p)
    /\ \E z \in 1 .. Len(pfound[p]) :
         /\ LeavesWith(ThisPass(p).lv0, ThisPass(p).pts[z]) = {}
         /\ Cardinality(RemoteOwners(p, ThisPass(p).pts[z])) >= 2
    /\ \E q \in Ranks : \E k \in Passes(q) : \E z \in 1 .. Len(searched[q][k].pfound) :
         /\ LeavesWith(searched[q][k].lv0, searched[q][k].pts[z]) # {}
         /\ RemoteOwners(q, searched[q][k].pts[z]) # {}
    /\ \E q \in Ranks : \E k \in Passes(q) : IsLostTo(searched[q][k]) # {}

\* the stage that process p computes in this step updates every record of
\* its store once, with rkstage
OneUpdateEach(p) ==
  \E rk \in [1 .. Len(padata[p]) -> RhsSet \cup {RhsZero}] :
    padata'[p] = [i \in 1 .. Len(padata[p]) |->
                    rkstage(padata[p][i], rk[i], sim[p].stage, sim[p].h)]

\* C36: after any sequence of coarsen and refine passes the cumulative
\* offsets of the local leaves do not decrease in leaf order and the offset
\* of the last local leaf is the size of the particle store, so the loop of
\* sim over the leaves applies one stage update per stage to every stored
\* particle and does not step past the end of the store
C36_OffsetsAfterAdaptation ==
  /\ [](\A p \in Ranks :
          /\ \A i \in 2 .. Len(leaves[p]) :
               leaves[p][i - 1].lpend <= leaves[p][i].lpend
          /\ leaves[p] # <<>> =>
               /\ leaves[p][1].lpend >= 0
               /\ leaves[p][Len(leaves[p])].lpend = Len(padata[p])
          /\ IntegrateCount(leaves[p], 0) = Len(padata[p]))
  /\ [][\A p \in Ranks : passno'[p] # passno[p] => OneUpdateEach(p)]_vars

\* a process that split a leaf in its first pass and a process that merged
\* leaves in its first pass have integrated their particles once more
C36_Witness ==
  /\ \E p \in Ranks :
       /\ passno[p] = 2 /\ padata[p] # <<>>
       /\ Len(searched[p][2].lv0) > Len(searched[p][1].lv0)
  /\ \E q \in Ranks :
       /\ passno[q] = 2 /\ padata[q] # <<>>
       /\ Len(searched[q][2].lv0) < Len(searched[q][1].lv0)

\* the leaves of the mesh after the coarsen pass of p that the pass created
MergedParents(p) ==
  {QuadOf(adapt[p].co[i]) : i \in 1 .. Len(adapt[p].co)}
    \ {QuadOf(adapt[p].sl[i]) : i \in 1 .. Len(adapt[p].sl)}

\* C37: a parent leaf that the coarsen pass has created is not split by the
\* refine pass of the same relocation pass: the count that let the sibling
\* group be merged, below half the target, is not above the target when
\* use_refine evaluates it
C37_MergedParentNotSplit ==
  \A p \in Ranks :
    CoarsenDone(p) =>
      /\ \A k \in 1 .. Len(Splits(p)) :
           QuadOf(Splits(p)[k].parent) \notin MergedParents(p)
      /\ \A i \in 1 .. Len(adapt[p].co) :
           QuadOf(adapt[p].co[i]) \in MergedParents(p) =>
             ~RefineTest(adapt[p].co[i].premain, adapt[p].co[i].preceive)

\* the same for the first relocation pass of a run
C37_MergedParentNotSplitFirstPass ==
  \A p \in Ranks :
    (CoarsenDone(p) /\ passno[p] = 1) =>
      /\ \A k \in 1 .. Len(Splits(p)) :
           QuadOf(Splits(p)[k].parent) \notin MergedParents(p)
      /\ \A i \in 1 .. Len(adapt[p].co) :
           QuadOf(adapt[p].co[i]) \in MergedParents(p) =>
             ~RefineTest(adapt[p].co[i].premain, adapt[p].co[i].preceive)

\* the time loop runs with a positive time step size and final time
TimePositive ==
  tloop.at # "idle" /\ tloop.deltat > 0 /\ tloop.finaltime > 0

\* a pass through the body of the time loop happens in this step
TimeStepped == tloop.at = "loop" /\ tloop'.at = "loop" /\ tloop'.k # tloop.k

\* the time strictly increases at every step, a step that would end later
\* than finaltime - 0.001 * deltat ends at the final time, and the loop ends
\* with the time equal to the final time
TimeAdvances ==
  /\ [][(TimePositive /\ TimeStepped) =>
          /\ tloop'.t > tloop.t
          /\ tloop'.h = tloop'.t - tloop.t
          /\ IF 1000 * (tloop.t + tloop.deltat)
                  > 1000 * tloop.finaltime - tloop.deltat
             THEN tloop'.t = tloop.finaltime
             ELSE tloop'.t = tloop.t + tloop.deltat]_vars
  /\ [](TimePositive /\ tloop.at = "returned" => tloop.t = tloop.finaltime)
  /\ [](TimePositive => tloop.k < TimeMaxSteps)
  /\ (TimePositive => <>(tloop.at = "returned"))

C39_TimeLoopTerminates == <>(tloop.at = "returned")

\* with a time step size that is not positive the time never increases
C39_NoProgress ==
  [][(tloop.at = "loop" /\ tloop.deltat <= 0) => tloop'.t <= tloop.t]_vars

\* s is an initial part of t
IsPrefix(s, t) == Len(s) <= Len(t) /\ \A i \in 1 .. Len(s) : s[i] = t[i]

\* how many collectives of kind c process p has entered
Entered(p, c) == Cardinality({i \in 1 .. Len(irp.hist[p]) : irp.hist[p][i] = c})

\* C40: the processes enter the same collectives in the same order, so that
\* none enters one that another skips; a process that has left the loop has
\* done so in the cycle in which every other process is, with the same
\* reduced values, and when all have left they have taken part in the same
\* number of reductions, refinements and repartitions
C40_SameCollectives ==
  \A p, q \in Ranks :
    /\ IsPrefix(irp.hist[p], irp.hist[q]) \/ IsPrefix(irp.hist[q], irp.hist[p])
    /\ irp.at[p] = "returned" =>
         /\ Len(irp.hist[q]) <= Len(irp.hist[p])
         /\ irp.cycle[q] = irp.cycle[p]
         /\ irp.at[q] \in {"sum", "max", "returned"}
    /\ irp.at[p] = "returned" /\ irp.at[q] = "returned" =>
         /\ irp.ilem[p] = irp.ilem[q]
         /\ irp.global_density[p] = irp.global_density[q]
         /\ \A c \in {"sum", "max", "count", "partition"} :
              Entered(p, c) = Entered(q, c)

\* every process has left the loop in the cycle after a refinement and a
\* repartition
C40_Witness ==
  /\ \A p \in Ranks : irp.at[p] = "returned" /\ irp.cycle[p] = 1
  /\ \A p \in Ranks : irp.hist[p] = << "sum", "max", "count", "partition", "sum", "max" >>


\* with a time step size that is not positive and a positive final time the
\* test of the loop holds in every state, whatever the number of steps: the
\* loop is never left
C39_StillLooping ==
  (tloop.at # "idle" /\ tloop.deltat <= 0 /\ tloop.finaltime > 0) =>
    (tloop.at = "loop" /\ tloop.t < tloop.finaltime)

=============================================================================
